---- MODULE Spec2Model ----
\* A state-machine model of the SaveApi facade of ER-Save-Lib: the in-memory
\* save container (`raw`) and the accessor calls that read and edit it.
EXTENDS Integers, Sequences, FiniteSets

\* ---------------------------------------------------------------- constants

\* Number of character slots: user_data_x and profile_summary.profiles hold ten.
NumSlots == 10

\* Header length of a console (Playstation) save, 0x6c.
ConsoleHeaderLen == 108

\* Bytes one region id occupies in the record (rest is cut / padded by 4).
RegionIdBytes == 4

\* Bytes one equipped gesture id (u32) occupies in the record.
GestureIdBytes == 4

\* Calls made on one loaded container. A panic ends the run earlier.
MaxCalls == 2

\* Calls made on one loaded container in the focused specifications (region
\* operations, file codec, event flags, param tables), which keep two calls
\* of history.
MaxRegionCalls == 3

Slots == 0 .. (NumSlots - 1)

\* ------------------------------------------------------------------- inputs

\* Character indexes passed to the facade: two valid slots and the first
\* index past the end.
Indexes == {0, 1, NumSlots}

\* Values passed to the numeric setters.
Values == {77}

\* Character names (strings as sequences of characters), chosen so that one is
\* empty and one is a proper substring of another.
Names == {<< >>, <<"A">>, <<"A", "B">>, <<"B">>}

\* Region ids passed to add_region / remove_region.
RegionIds == {1000, 2000}

\* Gesture lists passed to set_equipped_gestures: same length as the loaded
\* list, shorter and longer.
GestureLists == {<< >>, <<3, 4>>, <<5, 6, 7>>}

\* Steam ids passed to set_steam_id.
SteamIds == {1234567890}

\* Header lengths of the loaded file: console, and two others.
HeaderLens == {ConsoleHeaderLen, ConsoleHeaderLen + 4, 768}

\* Event-flag ids passed to get_event_flag / set_event_flag; the last one is
\* absent from the flag index.
EventIds == {100, 999}

NoArg == "none"
NoIndex == 0 - 1

\* -------------------------------------------------------------------- state

VARIABLES
    raw,        \* SaveApi.raw: the container being edited
    loaded,     \* the container as it was after construction
    before,     \* the container as it was before the last call
    before2,    \* the container as it was before the call preceding the last
    last,       \* the last call: [op, index, arg, outcome, ret]
    prev,       \* the call preceding the last: [op, index, arg, outcome]
    window,     \* how many past calls before2 / prev keep track of (1 or 2)
    ncalls      \* calls made so far

vars == <<raw, loaded, before, before2, last, prev, window, ncalls>>

\* player_game_data of slot s in the loaded file.
LoadedPlayerGameData(s) ==
    [character_name |-> IF s = 0 THEN <<"A", "B">> ELSE IF s = 1 THEN <<"A">> ELSE << >>,
     level |-> s + 1, gender |-> 0, archetype |-> 0, runes_memory |-> 0,
     hp |-> 0, max_hp |-> 0, base_max_hp |-> 0,
     fp |-> 0, max_fp |-> 0, base_max_fp |-> 0,
     sp |-> 0, max_sp |-> 0, base_max_sp |-> 0,
     vigor |-> 0, mind |-> 0, endurance |-> 0, strength |-> 0,
     dexterity |-> 0, intelligence |-> 0, faith |-> 0, arcane |-> 0,
     runes |-> 0]

\* The trailing region of slot s in the loaded file: slot 0 ends in non-zero
\* bytes, slot 1 ends in zero padding, the others are all padding.
LoadedRest(s) ==
    IF s = 0 THEN <<1, 2, 3, 4, 5>>
    ELSE IF s = 1 THEN <<7, 8, 0, 0, 0, 0>>
    ELSE <<0, 0, 0, 0>>

\* The unlocked regions of slot s in the loaded file.
LoadedRegionIds(s) == IF s = 1 THEN <<1000>> ELSE << >>

\* Character record s of the loaded file.
LoadedUserDataX(s) ==
    [player_game_data |-> LoadedPlayerGameData(s),
     equipped_gestures |-> [equipped_gesture |-> <<1, 2>>],
     unlocked_regions |-> [count |-> Len(LoadedRegionIds(s)), ids |-> LoadedRegionIds(s)],
     event_flags |-> [flags |-> <<0, 0>>],
     rest |-> LoadedRest(s)]

\* The profile-summary entry of a character record.
ProfileOf(pgd) ==
    [character_name |-> pgd.character_name, level |-> pgd.level,
     gender |-> pgd.gender, archetype |-> pgd.archetype,
     runes_memory |-> pgd.runes_memory]

\* Profile entry s of the loaded file. A file written by the game mirrors the
\* record (stale = FALSE); a file edited elsewhere may carry a stale entry.
LoadedProfile(s, stale) ==
    IF stale /\ s = 1
    THEN [ProfileOf(LoadedPlayerGameData(s)) EXCEPT !.character_name = <<"B">>, !.level = 9]
    ELSE ProfileOf(LoadedPlayerGameData(s))

\* The container SaveApi::new / from_slice / from_path wraps.
LoadedSave(header_len, stale) ==
    [header |-> [len |-> header_len],
     user_data_10 |->
        [steam_id |-> 0,
         profile_summary |->
            [active_profiles |-> [s \in Slots |-> s < 2],
             profiles |-> [s \in Slots |-> LoadedProfile(s, stale)]]],
     user_data_11 |-> [regulation |-> "regulation"],
     user_data_x |-> [s \in Slots |-> LoadedUserDataX(s)]]

NoCall == [op |-> "new", index |-> NoIndex, arg |-> NoArg, outcome |-> "Ok"]

\* The state after SaveApi::new(save): nothing called yet.
Constructed(save, w) ==
    /\ raw = save
    /\ loaded = save
    /\ before = save
    /\ before2 = save
    /\ last = [op |-> "new", index |-> NoIndex, arg |-> NoArg,
               outcome |-> "Ok", ret |-> NoArg]
    /\ prev = NoCall
    /\ window = w
    /\ ncalls = 0

Init ==
    \E header_len \in HeaderLens, stale \in BOOLEAN :
        Constructed(LoadedSave(header_len, stale), 1)

\* ------------------------------------------------------------ call plumbing

\* A call that returns Ok(()) leaving the container r.
Ok(r) == [raw |-> r, outcome |-> "Ok", ret |-> "unit"]

\* A getter that returns v (the container is borrowed immutably).
Ret(r, v) == [raw |-> r, outcome |-> "Ok", ret |-> v]

\* A call that returns Err(e) leaving the container r.
Err(r, e) == [raw |-> r, outcome |-> "Err", ret |-> e]

\* A call that panics, with the container left as r at the point of the panic.
Panic(r) == [raw |-> r, outcome |-> "Panic", ret |-> NoArg]

\* Rust's checked indexing of user_data_x / profiles: `v[index]` panics unless
\* index < len.
IndexInBounds(index) == index < NumSlots

\* The caller can make another call: a panic unwinds out of the facade, and no
\* further call is made on the container.
Callable ==
    /\ ncalls < (IF window >= 2 THEN MaxRegionCalls ELSE MaxCalls)
    /\ last.outcome # "Panic"

\* One facade call: the effect eff of op(index, arg) becomes the new state.
Call(op, index, arg, eff) ==
    /\ raw' = eff.raw
    /\ last' = [op |-> op, index |-> index, arg |-> arg,
                outcome |-> eff.outcome, ret |-> eff.ret]
    /\ before' = raw
    /\ before2' = IF window >= 2 THEN before ELSE before2
    /\ prev' = IF window >= 2
               THEN [op |-> last.op, index |-> last.index, arg |-> last.arg,
                     outcome |-> last.outcome]
               ELSE prev
    /\ ncalls' = ncalls + 1
    /\ UNCHANGED <<loaded, window>>

\* self.raw.user_data_x[index].player_game_data.<field> = value
SetPgd(r, index, field, value) ==
    [r EXCEPT !.user_data_x[index].player_game_data[field] = value]

\* self.raw.user_data_10.profile_summary.profiles[index].<field> = value
SetProfile(r, index, field, value) ==
    [r EXCEPT !.user_data_10.profile_summary.profiles[index][field] = value]

\* &str::to_string: an owned copy of the same characters.
to_string(s) == [k \in 1 .. Len(s) |-> s[k]]

\* ---------------------------------------------------- save_data_api (container)

\* Mutant of PlatformOf: an ordering test in place of the equality.
PlatformOfAtLeast(r) ==
    IF r.header.len >= ConsoleHeaderLen THEN "Playstation" ELSE "PC"

\* platform: the save type, decided by the header length alone.
PlatformOf(r) ==
    IF r.header.len = ConsoleHeaderLen THEN "Playstation" ELSE "PC"

platform ==
    /\ Callable
    /\ Call("platform", NoIndex, NoArg, Ret(raw, PlatformOf(raw)))

\* steam_id: reads user_data_10.steam_id.
steam_id ==
    /\ Callable
    /\ Call("steam_id", NoIndex, NoArg, Ret(raw, raw.user_data_10.steam_id))

\* Mutant of set_steam_id: the id is narrowed to 16 bits before it is stored.
set_steam_id_narrowed(value) ==
    /\ Callable
    /\ Call("set_steam_id", NoIndex, value,
            Ok([raw EXCEPT !.user_data_10.steam_id = value % 65536]))

\* set_steam_id: writes user_data_10.steam_id.
set_steam_id(value) ==
    /\ Callable
    /\ Call("set_steam_id", NoIndex, value,
            Ok([raw EXCEPT !.user_data_10.steam_id = value]))

\* ------------------------------------------------ user_data_10_api (profiles)

\* str::contains: needle occurs in hay as a contiguous substring.
Contains(hay, needle) ==
    \E k \in 0 .. (Len(hay) - Len(needle)) :
        SubSeq(hay, k + 1, k + Len(needle)) = needle

\* Iterator::position over the profiles: the first slot whose profile name
\* contains the given name, or None.
PositionContaining(r, name) ==
    LET hits == {s \in Slots :
                    Contains(r.user_data_10.profile_summary.profiles[s].character_name, name)}
    IN  IF hits = {} THEN [some |-> FALSE]
        ELSE [some |-> TRUE, value |-> CHOOSE s \in hits : \A t \in hits : s <= t]

\* Mutant of character_index_from_name: slots not marked active are skipped.
character_index_from_name_active_only(name) ==
    /\ Callable
    /\ Call("character_index_from_name", NoIndex, name,
            Ret(raw,
                LET hits == {s \in Slots :
                                /\ raw.user_data_10.profile_summary.active_profiles[s]
                                /\ Contains(raw.user_data_10.profile_summary
                                               .profiles[s].character_name, name)}
                IN  IF hits = {} THEN [some |-> FALSE]
                    ELSE [some |-> TRUE,
                          value |-> CHOOSE s \in hits : \A t \in hits : s <= t]))

character_index_from_name(name) ==
    /\ Callable
    /\ Call("character_index_from_name", NoIndex, name,
            Ret(raw, PositionContaining(raw, name)))

\* active_characters: the active-slot array of the profile summary.
active_characters ==
    /\ Callable
    /\ Call("active_characters", NoIndex, NoArg,
            Ret(raw, raw.user_data_10.profile_summary.active_profiles))

\* ------------------------------------------- user_data_api (mirrored setters)

\* Mutant of set_archetype: the profile write uses slot 0, not index.
set_archetype_first_profile(index, value) ==
    /\ Callable
    /\ Call("set_archetype", index, value,
            IF IndexInBounds(index)
            THEN Ok(SetProfile(SetPgd(raw, index, "archetype", value),
                               0, "archetype", value))
            ELSE Panic(raw))

\* set_archetype: writes the record, then the profile entry.
set_archetype(index, value) ==
    /\ Callable
    /\ Call("set_archetype", index, value,
            IF IndexInBounds(index)
            THEN Ok(SetProfile(SetPgd(raw, index, "archetype", value),
                               index, "archetype", value))
            ELSE Panic(raw))

\* Mutant of set_level: the profile write is missing.
set_level_record_only(index, value) ==
    /\ Callable
    /\ Call("set_level", index, value,
            IF IndexInBounds(index)
            THEN Ok(SetPgd(raw, index, "level", value))
            ELSE Panic(raw))

\* set_level: writes the record, then the profile entry.
set_level(index, value) ==
    /\ Callable
    /\ Call("set_level", index, value,
            IF IndexInBounds(index)
            THEN Ok(SetProfile(SetPgd(raw, index, "level", value),
                               index, "level", value))
            ELSE Panic(raw))

\* set_runes_memory: writes the record, then the profile entry.
set_runes_memory(index, value) ==
    /\ Callable
    /\ Call("set_runes_memory", index, value,
            IF IndexInBounds(index)
            THEN Ok(SetProfile(SetPgd(raw, index, "runes_memory", value),
                               index, "runes_memory", value))
            ELSE Panic(raw))

\* set_character_name: writes a copy of the name to the record, then to the
\* profile entry.
set_character_name(index, new_name) ==
    /\ Callable
    /\ Call("set_character_name", index, new_name,
            IF IndexInBounds(index)
            THEN Ok(SetProfile(SetPgd(raw, index, "character_name", to_string(new_name)),
                               index, "character_name", to_string(new_name)))
            ELSE Panic(raw))

\* Mutant of set_gender: the record write is missing.
set_gender_profile_only(index, value) ==
    /\ Callable
    /\ Call("set_gender", index, value,
            IF IndexInBounds(index)
            THEN Ok(SetProfile(raw, index, "gender", value))
            ELSE Panic(raw))

\* set_gender: writes the record, then the profile entry.
set_gender(index, value) ==
    /\ Callable
    /\ Call("set_gender", index, value,
            IF IndexInBounds(index)
            THEN Ok(SetProfile(SetPgd(raw, index, "gender", value),
                               index, "gender", value))
            ELSE Panic(raw))

\* ------------------------------------------- user_data_x_api (character record)

\* equipped_gestures: the gesture list of the indexed record.
equipped_gestures(index) ==
    /\ Callable
    /\ Call("equipped_gestures", index, NoArg,
            IF IndexInBounds(index)
            THEN Ret(raw, raw.user_data_x[index].equipped_gestures.equipped_gesture)
            ELSE Panic(raw))

\* set_equipped_gestures: replaces the gesture list; nothing else is written.
set_equipped_gestures(index, new_gestures) ==
    /\ Callable
    /\ Call("set_equipped_gestures", index, new_gestures,
            IF IndexInBounds(index)
            THEN Ok([raw EXCEPT
                       !.user_data_x[index].equipped_gestures.equipped_gesture = new_gestures])
            ELSE Panic(raw))

\* character_name: a copy of the record's name.
character_name(index) ==
    /\ Callable
    /\ Call("character_name", index, NoArg,
            IF IndexInBounds(index)
            THEN Ret(raw, to_string(raw.user_data_x[index].player_game_data.character_name))
            ELSE Panic(raw))

\* regions: the unlocked region ids of the indexed record.
regions(index) ==
    /\ Callable
    /\ Call("regions", index, NoArg,
            IF IndexInBounds(index)
            THEN Ret(raw, raw.user_data_x[index].unlocked_regions.ids)
            ELSE Panic(raw))

\* regions_count: the stored region count of the indexed record.
regions_count(index) ==
    /\ Callable
    /\ Call("regions_count", index, NoArg,
            IF IndexInBounds(index)
            THEN Ret(raw, raw.user_data_x[index].unlocked_regions.count)
            ELSE Panic(raw))

\* Mutant of Position: the last matching element, not the first.
PositionLast(ids, region_id) ==
    IF \E k \in 1 .. Len(ids) : ids[k] = region_id
    THEN CHOOSE k \in 1 .. Len(ids) :
            /\ ids[k] = region_id
            /\ \A j \in (k + 1) .. Len(ids) : ids[j] # region_id
    ELSE 0

\* Iterator::position(|id| *id == region_id): index (from 1) of the first
\* occurrence of region_id in ids, 0 for None.
Position(ids, region_id) ==
    IF \E k \in 1 .. Len(ids) : ids[k] = region_id
    THEN CHOOSE k \in 1 .. Len(ids) :
            /\ ids[k] = region_id
            /\ \A j \in 1 .. (k - 1) : ids[j] # region_id
    ELSE 0

\* Vec::remove(k): the sequence without its k-th element.
Remove(seq, k) == SubSeq(seq, 1, k - 1) \o SubSeq(seq, k + 1, Len(seq))

\* Vec::truncate(n): keeps the first n elements; no effect when n >= len.
Truncate(seq, n) == IF n >= Len(seq) THEN seq ELSE SubSeq(seq, 1, n)

\* Mutant of AddRegionWrites: rest is not cut.
AddRegionWritesNoCut(x, region_id, checks) ==
    LET pushed == [x EXCEPT !.unlocked_regions.ids = Append(@, region_id)]
    IN  [x |-> [pushed EXCEPT !.unlocked_regions.count = @ + 1], panicked |-> FALSE]

\* Mutant of AddRegionWrites: the count is not incremented.
AddRegionWritesNoCount(x, region_id, checks) ==
    LET pushed == [x EXCEPT !.unlocked_regions.ids = Append(@, region_id)]
        rest_len == Len(x.rest)
    IN  IF rest_len >= RegionIdBytes
        THEN [x |-> [pushed EXCEPT !.rest = Truncate(@, rest_len - RegionIdBytes)],
              panicked |-> FALSE]
        ELSE IF checks
        THEN [x |-> pushed, panicked |-> TRUE]
        ELSE [x |-> pushed, panicked |-> FALSE]

\* The record after add_region's three writes when region_id is absent:
\* push, count += 1, rest.truncate(rest_len - 4). `rest_len - 4` is a usize
\* subtraction: when rest_len < 4 it panics in a build with overflow checks
\* (the two earlier writes stay), and without them wraps to
\* 2^64 - (4 - rest_len), which is past the end of rest, so truncate cuts
\* nothing. count is a u32 that starts at the number of ids; it stays far
\* from the ends of its range.
AddRegionWrites(x, region_id, checks) ==
    LET pushed == [x EXCEPT !.unlocked_regions.ids = Append(@, region_id)]
        counted == [pushed EXCEPT !.unlocked_regions.count = @ + 1]
        rest_len == Len(x.rest)
    IN  IF rest_len >= RegionIdBytes
        THEN [x |-> [counted EXCEPT !.rest = Truncate(@, rest_len - RegionIdBytes)],
              panicked |-> FALSE]
        ELSE IF checks
        THEN [x |-> counted, panicked |-> TRUE]
        ELSE [x |-> [counted EXCEPT !.rest = Truncate(@, Len(@))],
              panicked |-> FALSE]

\* Mutant of add_region: the id is appended whether or not it is present.
add_region_unconditional(index, region_id) ==
    /\ Callable
    /\ \E checks \in BOOLEAN :
        Call("add_region", index, region_id,
             IF ~IndexInBounds(index) THEN Panic(raw)
             ELSE LET w == AddRegionWrites(raw.user_data_x[index], region_id, checks)
                      r == [raw EXCEPT !.user_data_x[index] = w.x]
                  IN  IF w.panicked THEN Panic(r) ELSE Ok(r))

\* add_region: appends an absent region id and cuts 4 bytes off rest.
add_region(index, region_id) ==
    /\ Callable
    /\ \E checks \in BOOLEAN :
        Call("add_region", index, region_id,
             IF ~IndexInBounds(index) THEN Panic(raw)
             ELSE IF Position(raw.user_data_x[index].unlocked_regions.ids, region_id) # 0
                  THEN Ok(raw)
             ELSE LET w == AddRegionWrites(raw.user_data_x[index], region_id, checks)
                      r == [raw EXCEPT !.user_data_x[index] = w.x]
                  IN  IF w.panicked THEN Panic(r) ELSE Ok(r))

\* Mutant of RemoveRegionWrites: the padding is put in front of rest.
RemoveRegionWritesPadFront(x, k) ==
    LET removed == [x EXCEPT !.unlocked_regions.ids = Remove(@, k)]
        counted == [removed EXCEPT !.unlocked_regions.count = @ - 1]
    IN  [counted EXCEPT !.rest = [j \in 1 .. RegionIdBytes |-> 0] \o @]

\* Mutant of RemoveRegionWrites: rest is not padded.
RemoveRegionWritesNoPad(x, k) ==
    LET removed == [x EXCEPT !.unlocked_regions.ids = Remove(@, k)]
    IN  [removed EXCEPT !.unlocked_regions.count = @ - 1]

\* The record after remove_region's three writes when region_id is at
\* position k: ids.remove, count -= 1, rest.extend(vec![0; 4]).
RemoveRegionWrites(x, k) ==
    LET removed == [x EXCEPT !.unlocked_regions.ids = Remove(@, k)]
        counted == [removed EXCEPT !.unlocked_regions.count = @ - 1]
    IN  [counted EXCEPT !.rest = @ \o [j \in 1 .. RegionIdBytes |-> 0]]

\* Mutant of remove_region: the padding goes to the first slot's rest.
remove_region_pads_first_slot(index, region_id) ==
    /\ Callable
    /\ Call("remove_region", index, region_id,
            IF ~IndexInBounds(index) THEN Panic(raw)
            ELSE LET k == Position(raw.user_data_x[index].unlocked_regions.ids, region_id)
                 IN  IF k = 0 THEN Ok(raw)
                     ELSE Ok([raw EXCEPT
                                !.user_data_x[index].unlocked_regions.ids = Remove(@, k),
                                !.user_data_x[index].unlocked_regions.count = @ - 1,
                                !.user_data_x[0].rest = @ \o [j \in 1 .. RegionIdBytes |-> 0]]))

\* Mutant of remove_region: rest is padded whether or not the id was found.
remove_region_always_pads(index, region_id) ==
    /\ Callable
    /\ Call("remove_region", index, region_id,
            IF ~IndexInBounds(index) THEN Panic(raw)
            ELSE LET k == Position(raw.user_data_x[index].unlocked_regions.ids, region_id)
                 IN  IF k = 0
                     THEN Ok([raw EXCEPT !.user_data_x[index].rest =
                                   @ \o [j \in 1 .. RegionIdBytes |-> 0]])
                     ELSE Ok([raw EXCEPT !.user_data_x[index] =
                                   RemoveRegionWrites(raw.user_data_x[index], k)]))

\* remove_region: removes the first occurrence of a present region id and
\* pads rest with 4 zero bytes.
remove_region(index, region_id) ==
    /\ Callable
    /\ Call("remove_region", index, region_id,
            IF ~IndexInBounds(index) THEN Panic(raw)
            ELSE LET k == Position(raw.user_data_x[index].unlocked_regions.ids, region_id)
                 IN  IF k = 0 THEN Ok(raw)
                     ELSE Ok([raw EXCEPT !.user_data_x[index] =
                                   RemoveRegionWrites(raw.user_data_x[index], k)]))

\* Mutant of set_hp: an index past the end is clamped to the last slot.
set_hp_clamped(index, value) ==
    /\ Callable
    /\ Call("set_hp", index, value,
            LET slot == IF IndexInBounds(index) THEN index ELSE NumSlots - 1
            IN  Ok(SetPgd(raw, slot, "hp", value)))

\* set_hp: writes the one field hp of the indexed character record.
set_hp(index, value) ==
    /\ Callable
    /\ Call("set_hp", index, value,
            IF IndexInBounds(index)
            THEN Ok(SetPgd(raw, index, "hp", value))
            ELSE Panic(raw))

\* set_max_hp: writes the one field max_hp of the indexed character record.
set_max_hp(index, value) ==
    /\ Callable
    /\ Call("set_max_hp", index, value,
            IF IndexInBounds(index)
            THEN Ok(SetPgd(raw, index, "max_hp", value))
            ELSE Panic(raw))

\* set_base_max_hp: writes the one field base_max_hp of the indexed character record.
set_base_max_hp(index, value) ==
    /\ Callable
    /\ Call("set_base_max_hp", index, value,
            IF IndexInBounds(index)
            THEN Ok(SetPgd(raw, index, "base_max_hp", value))
            ELSE Panic(raw))

\* set_fp: writes the one field fp of the indexed character record.
set_fp(index, value) ==
    /\ Callable
    /\ Call("set_fp", index, value,
            IF IndexInBounds(index)
            THEN Ok(SetPgd(raw, index, "fp", value))
            ELSE Panic(raw))

\* Mutant of set_max_fp: the value lands in max_hp.
set_max_fp_writes_max_hp(index, value) ==
    /\ Callable
    /\ Call("set_max_fp", index, value,
            IF IndexInBounds(index)
            THEN Ok(SetPgd(raw, index, "max_hp", value))
            ELSE Panic(raw))

\* set_max_fp: writes the one field max_fp of the indexed character record.
set_max_fp(index, value) ==
    /\ Callable
    /\ Call("set_max_fp", index, value,
            IF IndexInBounds(index)
            THEN Ok(SetPgd(raw, index, "max_fp", value))
            ELSE Panic(raw))

\* set_base_max_fp: writes the one field base_max_fp of the indexed character record.
set_base_max_fp(index, value) ==
    /\ Callable
    /\ Call("set_base_max_fp", index, value,
            IF IndexInBounds(index)
            THEN Ok(SetPgd(raw, index, "base_max_fp", value))
            ELSE Panic(raw))

\* set_sp: writes the one field sp of the indexed character record.
set_sp(index, value) ==
    /\ Callable
    /\ Call("set_sp", index, value,
            IF IndexInBounds(index)
            THEN Ok(SetPgd(raw, index, "sp", value))
            ELSE Panic(raw))

\* set_max_sp: writes the one field max_sp of the indexed character record.
set_max_sp(index, value) ==
    /\ Callable
    /\ Call("set_max_sp", index, value,
            IF IndexInBounds(index)
            THEN Ok(SetPgd(raw, index, "max_sp", value))
            ELSE Panic(raw))

\* set_base_max_sp: writes the one field base_max_sp of the indexed character record.
set_base_max_sp(index, value) ==
    /\ Callable
    /\ Call("set_base_max_sp", index, value,
            IF IndexInBounds(index)
            THEN Ok(SetPgd(raw, index, "base_max_sp", value))
            ELSE Panic(raw))

\* set_vigor: writes the one field vigor of the indexed character record.
set_vigor(index, value) ==
    /\ Callable
    /\ Call("set_vigor", index, value,
            IF IndexInBounds(index)
            THEN Ok(SetPgd(raw, index, "vigor", value))
            ELSE Panic(raw))

\* set_mind: writes the one field mind of the indexed character record.
set_mind(index, value) ==
    /\ Callable
    /\ Call("set_mind", index, value,
            IF IndexInBounds(index)
            THEN Ok(SetPgd(raw, index, "mind", value))
            ELSE Panic(raw))

\* set_endurance: writes the one field endurance of the indexed character record.
set_endurance(index, value) ==
    /\ Callable
    /\ Call("set_endurance", index, value,
            IF IndexInBounds(index)
            THEN Ok(SetPgd(raw, index, "endurance", value))
            ELSE Panic(raw))

\* set_strength: writes the one field strength of the indexed character record.
set_strength(index, value) ==
    /\ Callable
    /\ Call("set_strength", index, value,
            IF IndexInBounds(index)
            THEN Ok(SetPgd(raw, index, "strength", value))
            ELSE Panic(raw))

\* set_dexterity: writes the one field dexterity of the indexed character record.
set_dexterity(index, value) ==
    /\ Callable
    /\ Call("set_dexterity", index, value,
            IF IndexInBounds(index)
            THEN Ok(SetPgd(raw, index, "dexterity", value))
            ELSE Panic(raw))

\* set_intelligence: writes the one field intelligence of the indexed character record.
set_intelligence(index, value) ==
    /\ Callable
    /\ Call("set_intelligence", index, value,
            IF IndexInBounds(index)
            THEN Ok(SetPgd(raw, index, "intelligence", value))
            ELSE Panic(raw))

\* set_faith: writes the one field faith of the indexed character record.
set_faith(index, value) ==
    /\ Callable
    /\ Call("set_faith", index, value,
            IF IndexInBounds(index)
            THEN Ok(SetPgd(raw, index, "faith", value))
            ELSE Panic(raw))

\* set_arcane: writes the one field arcane of the indexed character record.
set_arcane(index, value) ==
    /\ Callable
    /\ Call("set_arcane", index, value,
            IF IndexInBounds(index)
            THEN Ok(SetPgd(raw, index, "arcane", value))
            ELSE Panic(raw))

\* set_runes: writes the one field runes of the indexed character record.
set_runes(index, value) ==
    /\ Callable
    /\ Call("set_runes", index, value,
            IF IndexInBounds(index)
            THEN Ok(SetPgd(raw, index, "runes", value))
            ELSE Panic(raw))

\* hp: reads the field hp of the indexed character record.
hp(index) ==
    /\ Callable
    /\ Call("hp", index, NoArg,
            IF IndexInBounds(index)
            THEN Ret(raw, raw.user_data_x[index].player_game_data.hp)
            ELSE Panic(raw))

\* max_hp: reads the field max_hp of the indexed character record.
max_hp(index) ==
    /\ Callable
    /\ Call("max_hp", index, NoArg,
            IF IndexInBounds(index)
            THEN Ret(raw, raw.user_data_x[index].player_game_data.max_hp)
            ELSE Panic(raw))

\* base_max_hp: reads the field base_max_hp of the indexed character record.
base_max_hp(index) ==
    /\ Callable
    /\ Call("base_max_hp", index, NoArg,
            IF IndexInBounds(index)
            THEN Ret(raw, raw.user_data_x[index].player_game_data.base_max_hp)
            ELSE Panic(raw))

\* max_fp: reads the field max_fp of the indexed character record.
max_fp(index) ==
    /\ Callable
    /\ Call("max_fp", index, NoArg,
            IF IndexInBounds(index)
            THEN Ret(raw, raw.user_data_x[index].player_game_data.max_fp)
            ELSE Panic(raw))

\* base_max_fp: reads the field base_max_fp of the indexed character record.
base_max_fp(index) ==
    /\ Callable
    /\ Call("base_max_fp", index, NoArg,
            IF IndexInBounds(index)
            THEN Ret(raw, raw.user_data_x[index].player_game_data.base_max_fp)
            ELSE Panic(raw))

\* max_sp: reads the field max_sp of the indexed character record.
max_sp(index) ==
    /\ Callable
    /\ Call("max_sp", index, NoArg,
            IF IndexInBounds(index)
            THEN Ret(raw, raw.user_data_x[index].player_game_data.max_sp)
            ELSE Panic(raw))

\* base_max_sp: reads the field base_max_sp of the indexed character record.
base_max_sp(index) ==
    /\ Callable
    /\ Call("base_max_sp", index, NoArg,
            IF IndexInBounds(index)
            THEN Ret(raw, raw.user_data_x[index].player_game_data.base_max_sp)
            ELSE Panic(raw))

\* level: reads the field level of the indexed character record.
level(index) ==
    /\ Callable
    /\ Call("level", index, NoArg,
            IF IndexInBounds(index)
            THEN Ret(raw, raw.user_data_x[index].player_game_data.level)
            ELSE Panic(raw))

\* vigor: reads the field vigor of the indexed character record.
vigor(index) ==
    /\ Callable
    /\ Call("vigor", index, NoArg,
            IF IndexInBounds(index)
            THEN Ret(raw, raw.user_data_x[index].player_game_data.vigor)
            ELSE Panic(raw))

\* mind: reads the field mind of the indexed character record.
mind(index) ==
    /\ Callable
    /\ Call("mind", index, NoArg,
            IF IndexInBounds(index)
            THEN Ret(raw, raw.user_data_x[index].player_game_data.mind)
            ELSE Panic(raw))

\* endurance: reads the field endurance of the indexed character record.
endurance(index) ==
    /\ Callable
    /\ Call("endurance", index, NoArg,
            IF IndexInBounds(index)
            THEN Ret(raw, raw.user_data_x[index].player_game_data.endurance)
            ELSE Panic(raw))

\* strength: reads the field strength of the indexed character record.
strength(index) ==
    /\ Callable
    /\ Call("strength", index, NoArg,
            IF IndexInBounds(index)
            THEN Ret(raw, raw.user_data_x[index].player_game_data.strength)
            ELSE Panic(raw))

\* dexterity: reads the field dexterity of the indexed character record.
dexterity(index) ==
    /\ Callable
    /\ Call("dexterity", index, NoArg,
            IF IndexInBounds(index)
            THEN Ret(raw, raw.user_data_x[index].player_game_data.dexterity)
            ELSE Panic(raw))

\* intelligence: reads the field intelligence of the indexed character record.
intelligence(index) ==
    /\ Callable
    /\ Call("intelligence", index, NoArg,
            IF IndexInBounds(index)
            THEN Ret(raw, raw.user_data_x[index].player_game_data.intelligence)
            ELSE Panic(raw))

\* faith: reads the field faith of the indexed character record.
faith(index) ==
    /\ Callable
    /\ Call("faith", index, NoArg,
            IF IndexInBounds(index)
            THEN Ret(raw, raw.user_data_x[index].player_game_data.faith)
            ELSE Panic(raw))

\* arcane: reads the field arcane of the indexed character record.
arcane(index) ==
    /\ Callable
    /\ Call("arcane", index, NoArg,
            IF IndexInBounds(index)
            THEN Ret(raw, raw.user_data_x[index].player_game_data.arcane)
            ELSE Panic(raw))

\* runes: reads the field runes of the indexed character record.
runes(index) ==
    /\ Callable
    /\ Call("runes", index, NoArg,
            IF IndexInBounds(index)
            THEN Ret(raw, raw.user_data_x[index].player_game_data.runes)
            ELSE Panic(raw))

\* runes_memory: reads the field runes_memory of the indexed character record.
runes_memory(index) ==
    /\ Callable
    /\ Call("runes_memory", index, NoArg,
            IF IndexInBounds(index)
            THEN Ret(raw, raw.user_data_x[index].player_game_data.runes_memory)
            ELSE Panic(raw))

\* archetype: reads the field archetype of the indexed character record.
archetype(index) ==
    /\ Callable
    /\ Call("archetype", index, NoArg,
            IF IndexInBounds(index)
            THEN Ret(raw, raw.user_data_x[index].player_game_data.archetype)
            ELSE Panic(raw))

\* gender: reads the field gender of the indexed character record.
gender(index) ==
    /\ Callable
    /\ Call("gender", index, NoArg,
            IF IndexInBounds(index)
            THEN Ret(raw, raw.user_data_x[index].player_game_data.gender)
            ELSE Panic(raw))

\* ------------------------------------------------------ event flags (facade)

\* The flag index: flag id -> bit offset in a character's event-flag block.
FlagIndex == [id \in {100, 200} |-> IF id = 100 THEN 9 ELSE 10]

\* Bit b of a byte.
BitOf(byte, b) == (byte \div (2 ^ b)) % 2

\* A byte with bit b set to on.
WithBit(byte, b, on) ==
    byte - BitOf(byte, b) * (2 ^ b) + (IF on THEN 2 ^ b ELSE 0)

\* EventFlagsApi::get_event_flag on container r: an index outside the slots is
\* a bounds error, an id absent from the index is EventIdNotFound(id).
EventFlagsApi_get_event_flag(r, event_id, character_index) ==
    IF ~IndexInBounds(character_index) THEN Panic(r)
    ELSE IF event_id \notin DOMAIN FlagIndex
         THEN Err(r, [error |-> "EventIdNotFound", id |-> event_id])
    ELSE LET offset == FlagIndex[event_id]
             byte == r.user_data_x[character_index].event_flags.flags[(offset \div 8) + 1]
         IN  Ret(r, BitOf(byte, offset % 8) = 1)

\* EventFlagsApi::set_event_flag on container r: sets the one bit the index
\* gives for the id.
EventFlagsApi_set_event_flag(r, event_id, character_index, on) ==
    IF ~IndexInBounds(character_index) THEN Panic(r)
    ELSE IF event_id \notin DOMAIN FlagIndex
         THEN Err(r, [error |-> "EventIdNotFound", id |-> event_id])
    ELSE LET offset == FlagIndex[event_id]
         IN  Ok([r EXCEPT
                   !.user_data_x[character_index].event_flags.flags[(offset \div 8) + 1] =
                       WithBit(@, offset % 8, on)])

\* get_event_flag: delegates to the flag store.
get_event_flag(event_id, character_index) ==
    /\ Callable
    /\ Call("get_event_flag", character_index, event_id,
            EventFlagsApi_get_event_flag(raw, event_id, character_index))

\* Mutant of set_event_flag: the flag is always switched on.
set_event_flag_always_on(event_id, character_index, on) ==
    /\ Callable
    /\ Call("set_event_flag", character_index, <<event_id, on>>,
            EventFlagsApi_set_event_flag(raw, event_id, character_index, TRUE))

\* Mutant of set_event_flag: the store's error is dropped and Ok returned.
set_event_flag_error_dropped(event_id, character_index, on) ==
    /\ Callable
    /\ Call("set_event_flag", character_index, <<event_id, on>>,
            LET eff == EventFlagsApi_set_event_flag(raw, event_id, character_index, on)
            IN  IF eff.outcome = "Err" THEN Ok(eff.raw) ELSE eff)

\* Mutant of set_event_flag: the store is always given the first slot.
set_event_flag_first_slot(event_id, character_index, on) ==
    /\ Callable
    /\ Call("set_event_flag", character_index, <<event_id, on>>,
            IF ~IndexInBounds(character_index) THEN Panic(raw)
            ELSE EventFlagsApi_set_event_flag(raw, event_id, 0, on))

\* set_event_flag: delegates to the flag store.
set_event_flag(event_id, character_index, on) ==
    /\ Callable
    /\ Call("set_event_flag", character_index, <<event_id, on>>,
            EventFlagsApi_set_event_flag(raw, event_id, character_index, on))

\* -------------------------------------------------------------- specification

Next ==
    \/ platform
    \/ steam_id
    \/ \E value \in SteamIds : set_steam_id(value)
    \/ \E name \in Names : character_index_from_name(name)
    \/ active_characters
    \/ \E index \in Indexes, value \in Values : set_archetype(index, value)
    \/ \E index \in Indexes, value \in Values : set_level(index, value)
    \/ \E index \in Indexes, value \in Values : set_runes_memory(index, value)
    \/ \E index \in Indexes, new_name \in Names : set_character_name(index, new_name)
    \/ \E index \in Indexes, value \in Values : set_gender(index, value)
    \/ \E index \in Indexes : equipped_gestures(index)
    \/ \E index \in Indexes, new_gestures \in GestureLists :
          set_equipped_gestures(index, new_gestures)
    \/ \E index \in Indexes : character_name(index)
    \/ \E index \in Indexes : regions(index)
    \/ \E index \in Indexes : regions_count(index)
    \/ \E index \in Indexes, region_id \in RegionIds : add_region(index, region_id)
    \/ \E index \in Indexes, region_id \in RegionIds : remove_region(index, region_id)
    \/ \E index \in Indexes, event_id \in EventIds : get_event_flag(event_id, index)
    \/ \E index \in Indexes, event_id \in EventIds, on \in BOOLEAN :
          set_event_flag(event_id, index, on)
    \/ \E index \in Indexes, value \in Values : set_hp(index, value)
    \/ \E index \in Indexes, value \in Values : set_max_hp(index, value)
    \/ \E index \in Indexes, value \in Values : set_base_max_hp(index, value)
    \/ \E index \in Indexes, value \in Values : set_fp(index, value)
    \/ \E index \in Indexes, value \in Values : set_max_fp(index, value)
    \/ \E index \in Indexes, value \in Values : set_base_max_fp(index, value)
    \/ \E index \in Indexes, value \in Values : set_sp(index, value)
    \/ \E index \in Indexes, value \in Values : set_max_sp(index, value)
    \/ \E index \in Indexes, value \in Values : set_base_max_sp(index, value)
    \/ \E index \in Indexes, value \in Values : set_vigor(index, value)
    \/ \E index \in Indexes, value \in Values : set_mind(index, value)
    \/ \E index \in Indexes, value \in Values : set_endurance(index, value)
    \/ \E index \in Indexes, value \in Values : set_strength(index, value)
    \/ \E index \in Indexes, value \in Values : set_dexterity(index, value)
    \/ \E index \in Indexes, value \in Values : set_intelligence(index, value)
    \/ \E index \in Indexes, value \in Values : set_faith(index, value)
    \/ \E index \in Indexes, value \in Values : set_arcane(index, value)
    \/ \E index \in Indexes, value \in Values : set_runes(index, value)
    \/ \E index \in Indexes : hp(index)
    \/ \E index \in Indexes : max_hp(index)
    \/ \E index \in Indexes : base_max_hp(index)
    \/ \E index \in Indexes : max_fp(index)
    \/ \E index \in Indexes : base_max_fp(index)
    \/ \E index \in Indexes : max_sp(index)
    \/ \E index \in Indexes : base_max_sp(index)
    \/ \E index \in Indexes : level(index)
    \/ \E index \in Indexes : vigor(index)
    \/ \E index \in Indexes : mind(index)
    \/ \E index \in Indexes : endurance(index)
    \/ \E index \in Indexes : strength(index)
    \/ \E index \in Indexes : dexterity(index)
    \/ \E index \in Indexes : intelligence(index)
    \/ \E index \in Indexes : faith(index)
    \/ \E index \in Indexes : arcane(index)
    \/ \E index \in Indexes : runes(index)
    \/ \E index \in Indexes : runes_memory(index)
    \/ \E index \in Indexes : archetype(index)
    \/ \E index \in Indexes : gender(index)

Spec == Init /\ [][Next]_vars

\* ---------------------------------------------- specification: regions only

\* Trailing regions of slot 0 in the loaded file: each leaves room for at
\* least one more region id.
RegionRests ==
    {<<1, 2, 3, 4>>, <<0, 0, 0, 0>>, <<1, 2, 3, 4, 5>>, <<5, 0, 0, 0, 0>>,
     <<1, 2, 3, 4, 5, 6, 7, 8>>, <<9, 0, 0, 0, 0, 0, 0, 0, 0>>}

\* Unlocked region ids of slot 0 in the loaded file: none, one, two, and a
\* list in which an id occurs twice.
RegionIdLists == {<< >>, <<1000>>, <<2000, 1000>>, <<1000, 2000, 1000>>}

\* A loaded container whose slot 0 has the given regions and trailing bytes.
InitRegions ==
    \E rest \in RegionRests, ids \in RegionIdLists :
        Constructed([LoadedSave(ConsoleHeaderLen, FALSE) EXCEPT
                        !.user_data_x[0].rest = rest,
                        !.user_data_x[0].unlocked_regions =
                            [count |-> Len(ids), ids |-> ids]],
                    2)

NextRegions ==
    \/ \E index \in Indexes, region_id \in RegionIds : add_region(index, region_id)
    \/ \E index \in Indexes, region_id \in RegionIds : remove_region(index, region_id)

SpecRegions == InitRegions /\ [][NextRegions]_vars

\* ------------------------------------------------------------------- claims

Ids(r, s) == r.user_data_x[s].unlocked_regions.ids
Count(r, s) == r.user_data_x[s].unlocked_regions.count
Rest(r, s) == r.user_data_x[s].rest
Gestures(r, s) == r.user_data_x[s].equipped_gestures.equipped_gesture
Pgd(r, s) == r.user_data_x[s].player_game_data
Profile(r, s) == r.user_data_10.profile_summary.profiles[s]

\* The last 4 elements of seq.
Tail4(seq) == SubSeq(seq, Len(seq) - RegionIdBytes + 1, Len(seq))
ZeroPad == [j \in 1 .. RegionIdBytes |-> 0]

\* C1: for every slot, 4*len(ids) + len(rest) is the same after every
\* add_region / remove_region call as it was at load.
C1_RegionLengthConstant ==
    \A s \in Slots :
        RegionIdBytes * Len(Ids(raw, s)) + Len(Rest(raw, s))
            = RegionIdBytes * Len(Ids(loaded, s)) + Len(Rest(loaded, s))

\* The last two calls were add_region(s, r), with r absent before it, and
\* remove_region(s, r), and both returned Ok.
AddThenRemove(s, r) ==
    /\ prev.op = "add_region" /\ prev.outcome = "Ok"
    /\ last.op = "remove_region" /\ last.outcome = "Ok"
    /\ prev.index = s /\ last.index = s
    /\ prev.arg = r /\ last.arg = r
    /\ Position(Ids(before2, s), r) = 0

\* C2 (as claimed): add_region(s, r) of an absent id immediately followed by
\* remove_region(s, r) restores rest byte for byte, whatever its bytes were.
C2_AddRemoveRestoresRest ==
    \A s \in Slots, r \in RegionIds :
        AddThenRemove(s, r) => Rest(raw, s) = Rest(before2, s)

\* C2 (amended): add_region(s, r) of an absent id immediately followed by
\* remove_region(s, r) restores rest byte for byte exactly when the original
\* rest had at least 4 bytes and its last 4 bytes were zero; when it had at
\* least 4 bytes, its length and all bytes but the last 4 are restored and
\* the last 4 are zero.
C2_AddRemoveRestoresZeroTail ==
    \A s \in Slots, r \in RegionIds :
        AddThenRemove(s, r) =>
            LET orig == Rest(before2, s)
                now == Rest(raw, s)
            IN  /\ (now = orig) <=> (Len(orig) >= RegionIdBytes /\ Tail4(orig) = ZeroPad)
                /\ Len(orig) >= RegionIdBytes =>
                      /\ Len(now) = Len(orig)
                      /\ SubSeq(now, 1, Len(orig) - RegionIdBytes)
                            = SubSeq(orig, 1, Len(orig) - RegionIdBytes)
                      /\ Tail4(now) = ZeroPad

\* C2 witness: an add / remove pair on a rest that ends in 4 zero bytes after
\* a non-zero byte, restored exactly.
C2_Witness ==
    \E s \in Slots, r \in RegionIds :
        /\ AddThenRemove(s, r)
        /\ Len(Rest(before2, s)) > RegionIdBytes
        /\ Rest(before2, s)[1] # 0
        /\ Rest(raw, s) = Rest(before2, s)
        /\ Rest(before, s) # Rest(before2, s)

\* C3: add_region of an absent id never ends with the id appended and the
\* count incremented while rest was not shortened by 4 bytes.
C3_AddRegionKeepsCoupling ==
    (last.op = "add_region" /\ IndexInBounds(last.index)
        /\ Position(Ids(before, last.index), last.arg) = 0) =>
        ~ ( /\ Ids(raw, last.index) = Append(Ids(before, last.index), last.arg)
            /\ Count(raw, last.index) = Count(before, last.index) + 1
            /\ Len(Rest(raw, last.index)) # Len(Rest(before, last.index)) - RegionIdBytes )

\* Bytes the variable-length fields of record s occupy.
VariableBytes(r, s) ==
    RegionIdBytes * Len(Ids(r, s)) + GestureIdBytes * Len(Gestures(r, s))

\* C4: every facade mutation that changes the length of a variable-length
\* field of a record changes the size of rest by the opposite number of bytes.
C4_VariableLengthCoupled ==
    last.outcome = "Ok" =>
        \A s \in Slots :
            Len(Rest(raw, s)) - Len(Rest(before, s))
                = VariableBytes(before, s) - VariableBytes(raw, s)

\* The mirrored setters and the field each writes.
MirroredSetters ==
    {"set_character_name", "set_level", "set_gender", "set_archetype", "set_runes_memory"}
FieldOf(op) ==
    CASE op = "set_character_name" -> "character_name"
      [] op = "set_level" -> "level"
      [] op = "set_gender" -> "gender"
      [] op = "set_archetype" -> "archetype"
      [] op = "set_runes_memory" -> "runes_memory"

\* C5: after a mirrored setter called with (i, v) returns Ok, i is a slot and
\* both the character record and the profile entry of slot i hold v.
C5_MirroredSetterWritesBoth ==
    (last.op \in MirroredSetters /\ last.outcome = "Ok") =>
        /\ last.index \in Slots
        /\ Pgd(raw, last.index)[FieldOf(last.op)] = last.arg
        /\ Profile(raw, last.index)[FieldOf(last.op)] = last.arg

\* C5 witness: a mirrored setter returned Ok after changing both copies.
C5_Witness ==
    /\ last.op = "set_runes_memory" /\ last.outcome = "Ok"
    /\ Pgd(before, last.index).runes_memory # last.arg
    /\ Profile(before, last.index).runes_memory # last.arg

\* Every profile entry agrees with its record on the five mirrored fields.
MirrorAgree(r) ==
    \A s \in Slots : Profile(r, s) = ProfileOf(Pgd(r, s))

\* C6: if every profile entry agreed with its record at load, it still does
\* after any sequence of facade calls.
C6_MirrorStaysConsistent ==
    MirrorAgree(loaded) => MirrorAgree(raw)

\* C6 witness: two calls after a consistent load, with profile and records
\* both edited.
C6_Witness ==
    /\ MirrorAgree(loaded)
    /\ ncalls = MaxCalls
    /\ raw.user_data_10.profile_summary # loaded.user_data_10.profile_summary
    /\ before.user_data_10.profile_summary # loaded.user_data_10.profile_summary
    /\ last.op \in MirroredSetters /\ last.outcome = "Ok"

\* The mutators that take a character index and edit a character section.
StatSetters ==
    {"set_hp", "set_max_hp", "set_base_max_hp", "set_fp", "set_max_fp",
     "set_base_max_fp", "set_sp", "set_max_sp", "set_base_max_sp", "set_vigor",
     "set_mind", "set_endurance", "set_strength", "set_dexterity",
     "set_intelligence", "set_faith", "set_arcane", "set_runes"}
SlotMutators ==
    StatSetters \cup MirroredSetters
        \cup {"add_region", "remove_region", "set_equipped_gestures"}

\* Everything of the container outside character section i and outside the
\* profile-summary section is as before the last call.
OtherSectionsUntouched(i) ==
    /\ raw.header = before.header
    /\ raw.user_data_11 = before.user_data_11
    /\ \A j \in Slots \ {i} : raw.user_data_x[j] = before.user_data_x[j]

\* C7 (as claimed): a mutator called with character index i changes only
\* character section i; header, user_data_10, user_data_11 and every other
\* character section are as before.
C7_SectionIsolation ==
    (last.op \in SlotMutators /\ IndexInBounds(last.index)) =>
        /\ OtherSectionsUntouched(last.index)
        /\ raw.user_data_10 = before.user_data_10

\* C7 (amended): a mutator called with character index i changes only
\* character section i and, for the five mirrored setters, the mirrored field
\* of profile entry i in user_data_10; the header, user_data_11, the steam id,
\* the active flags, every other profile entry and every other character
\* section are as before.
C7_SectionIsolationButMirror ==
    (last.op \in SlotMutators /\ IndexInBounds(last.index)) =>
        /\ OtherSectionsUntouched(last.index)
        /\ raw.user_data_10 =
              IF last.op \in MirroredSetters
              THEN [before.user_data_10 EXCEPT
                      !.profile_summary.profiles[last.index][FieldOf(last.op)] = last.arg]
              ELSE before.user_data_10

\* C7 witness: a mirrored setter and a region edit each changed their slot.
C7_Witness ==
    /\ ncalls = MaxCalls
    /\ last.op = "set_level" /\ IndexInBounds(last.index)
    /\ raw.user_data_10 # before.user_data_10
    /\ raw.user_data_x[last.index] # before.user_data_x[last.index]
    /\ \E j \in Slots \ {last.index} : before.user_data_x[j] # loaded.user_data_x[j]

\* The calls that take a character index.
IndexedCall == last.index # NoIndex

C9_NameLookupExact ==
    (last.op = "character_index_from_name" /\ MirrorAgree(raw)) =>
        /\ last.ret.some =>
              Pgd(raw, last.ret.value).character_name = last.arg
        /\ ~last.ret.some <=>
              ~ \E s \in Slots : Pgd(raw, s).character_name = last.arg

\* C10: platform() returns Playstation exactly when the header is 0x6c bytes
\* long and PC otherwise, and no call changes the header.
C10_PlatformFromHeaderLength ==
    /\ raw.header = loaded.header
    /\ last.op = "platform" =>
          /\ last.outcome = "Ok"
          /\ last.ret \in {"Playstation", "PC"}
          /\ (last.ret = "Playstation") <=> (raw.header.len = ConsoleHeaderLen)

\* C10 witness: platform() answered Playstation on an edited console save.
C10_Witness ==
    /\ last.op = "platform" /\ last.ret = "Playstation"
    /\ raw # loaded

\* ------------------------------------------------ save container (file codec)
\* Save::from_slice / Save::write_to_vec, which SaveApi::from_slice and
\* SaveApi::to_vec delegate to: the outer file is a header followed by twelve
\* encrypted, checksummed sections.

\* Sections of the file: 0..9 hold the character records, section 10 the
\* profile summary (user_data_10), section 11 the regulation (user_data_11).
SectionIds == 0 .. (NumSlots + 1)

\* Header length of a PC save.
PcHeaderLen == 768

\* The header sizes the container format knows.
KnownHeaderLens == {ConsoleHeaderLen, PcHeaderLen}

\* A u64 as 8 little-endian bytes (values below 2^31 here, so bytes 5..8 are 0).
EncodeU64(v) ==
    [i \in 1 .. 8 |-> IF i <= 4 THEN (v \div (256 ^ (i - 1))) % 256 ELSE 0]

\* 8 little-endian bytes as a u64.
DecodeU64(b) == b[1] + 256 * b[2] + 65536 * b[3] + 16777216 * b[4]

\* The plaintext of section k of container r.
SectionPlaintext(r, k) ==
    IF k < NumSlots
    THEN [kind |-> "user_data_x", record |-> r.user_data_x[k]]
    ELSE IF k = NumSlots
    THEN [kind |-> "user_data_10",
          steam_id |-> EncodeU64(r.user_data_10.steam_id),
          profile_summary |-> r.user_data_10.profile_summary]
    ELSE [kind |-> "user_data_11", regulation |-> r.user_data_11.regulation]

\* The keyed digest over IV || plaintext.
Digest(iv, plaintext) == [iv |-> iv, plaintext |-> plaintext]

\* Block-cipher encryption of a plaintext under the format key and an IV;
\* stray counts the bytes beyond a whole number of cipher blocks.
Encrypt(plaintext, iv) == [key |-> "format", iv |-> iv, body |-> plaintext, stray |-> 0]

\* Decryption with the format key and the IV stored inline.
Decrypt(cipher) == cipher.body

\* Section Codec, decode: a checksum mismatch clears is_valid and the decoded
\* content is still exposed.
DecodeSection(section) ==
    LET plaintext == Decrypt(section.cipher)
    IN  [iv |-> section.iv,
         plaintext |-> plaintext,
         checksum |-> section.checksum,
         is_valid |-> (section.checksum = Digest(section.iv, plaintext))]

\* Mutant of EncodeSection: a new IV is drawn on every encode.
EncodeSectionFreshIv(loaded_section, plaintext) ==
    LET iv == loaded_section.iv + 1
    IN  [iv |-> iv,
         cipher |-> Encrypt(plaintext, iv),
         checksum |-> Digest(iv, plaintext)]

\* Section Codec, encode: the IV is kept unless the plaintext changed, the
\* checksum is recomputed over the current plaintext.
EncodeSection(loaded_section, plaintext) ==
    LET iv == IF plaintext = loaded_section.plaintext
              THEN loaded_section.iv
              ELSE loaded_section.iv + 1
    IN  [iv |-> iv,
         cipher |-> Encrypt(plaintext, iv),
         checksum |-> Digest(iv, plaintext)]

\* Structural soundness of a file: total length, header size, block alignment.
StructurallySound(bytes) ==
    /\ bytes.extra_len = 0
    /\ bytes.header.len \in KnownHeaderLens
    /\ \A k \in SectionIds : bytes.sections[k].cipher.stray = 0

\* Mutant of Parse: a checksum mismatch is treated as a structural failure.
ParseStrict(bytes) ==
    IF \/ ~StructurallySound(bytes)
       \/ \E k \in SectionIds :
             bytes.sections[k].checksum #
                 Digest(bytes.sections[k].iv, Decrypt(bytes.sections[k].cipher))
    THEN [ok |-> FALSE, error |-> [error |-> "SaveParserError"]]
    ELSE [ok |-> TRUE,
          save |->
            LET sections == [k \in SectionIds |-> DecodeSection(bytes.sections[k])]
            IN  [header |-> bytes.header,
                 user_data_10 |->
                    [steam_id |-> DecodeU64(sections[NumSlots].plaintext.steam_id),
                     profile_summary |-> sections[NumSlots].plaintext.profile_summary],
                 user_data_11 |->
                    [regulation |-> sections[NumSlots + 1].plaintext.regulation],
                 user_data_x |-> [s \in Slots |-> sections[s].plaintext.record],
                 sections |-> sections]]

\* Save::from_slice: a structural or cipher-level failure is a SaveParseError;
\* otherwise every section is decoded, valid or not.
Parse(bytes) ==
    IF ~StructurallySound(bytes)
    THEN [ok |-> FALSE, error |-> [error |-> "SaveParserError"]]
    ELSE LET sections == [k \in SectionIds |-> DecodeSection(bytes.sections[k])]
         IN  [ok |-> TRUE,
              save |->
                [header |-> bytes.header,
                 user_data_10 |->
                    [steam_id |-> DecodeU64(sections[NumSlots].plaintext.steam_id),
                     profile_summary |-> sections[NumSlots].plaintext.profile_summary],
                 user_data_11 |->
                    [regulation |-> sections[NumSlots + 1].plaintext.regulation],
                 user_data_x |-> [s \in Slots |-> sections[s].plaintext.record],
                 sections |-> sections]]

\* Save::write_to_vec: the header verbatim, then every section re-encoded from
\* the current in-memory state, in section order.
Serialize(r) ==
    [header |-> r.header,
     extra_len |-> 0,
     sections |->
        [k \in SectionIds |-> EncodeSection(r.sections[k], SectionPlaintext(r, k))]]

\* SaveApi::from_slice: a new container from bytes; on an error no container
\* is returned and the caller keeps the one it had.
from_slice(bytes) ==
    /\ Callable
    /\ Call("from_slice", NoIndex, bytes,
            LET parsed == Parse(bytes)
            IN  IF parsed.ok THEN Ok(parsed.save) ELSE Err(raw, parsed.error))

\* SaveApi::to_vec: the serialized container; the container is only read.
to_vec ==
    /\ Callable
    /\ Call("to_vec", NoIndex, NoArg, Ret(raw, Serialize(raw)))

\* The file the game writes for a save: every section encrypted under IV iv
\* with a matching checksum.
FileOf(save, iv) ==
    [header |-> save.header,
     extra_len |-> 0,
     sections |->
        [k \in SectionIds |->
            [iv |-> iv,
             cipher |-> Encrypt(SectionPlaintext(save, k), iv),
             checksum |-> Digest(iv, SectionPlaintext(save, k))]]]

\* Files handed to from_slice: a console and a PC save as the game wrote them,
\* the console save with the checksum of a character section or of the
\* profile-summary section altered, with a section that is not a whole number
\* of cipher blocks, with a byte too many, and with an unknown header size.
FilesOnDisk ==
    LET console == FileOf(LoadedSave(ConsoleHeaderLen, FALSE), 1)
        pc == FileOf(LoadedSave(PcHeaderLen, TRUE), 1)
    IN  {console, pc,
         [console EXCEPT !.sections[0].checksum.iv = 9],
         [console EXCEPT !.sections[NumSlots].checksum.iv = 9],
         [console EXCEPT !.sections[3].cipher.stray = 5],
         [console EXCEPT !.extra_len = 1],
         [console EXCEPT !.header.len = ConsoleHeaderLen + 4]}

\* Steam ids written in the file specification: one byte wide and several
\* bytes wide.
FileSteamIds == {255, 1234567890}

\* A container loaded from a file the game wrote.
InitFile ==
    \E bytes \in {FileOf(LoadedSave(ConsoleHeaderLen, FALSE), 1)} :
        Constructed(Parse(bytes).save, 2)

NextFile ==
    \/ \E bytes \in FilesOnDisk \cup {Serialize(raw)} : from_slice(bytes)
    \/ to_vec
    \/ \E value \in FileSteamIds : set_steam_id(value)
    \/ steam_id

SpecFile == InitFile /\ [][NextFile]_vars

\* ------------------------------------------------- claims on the file codec

SteamId(r) == r.user_data_10.steam_id

\* The last call re-parsed the bytes the call before it serialized.
Reparsed ==
    /\ last.op = "from_slice" /\ prev.op = "to_vec"
    /\ last.arg = Serialize(before)

LoadedThenSerialized ==
    /\ last.op = "to_vec" /\ last.outcome = "Ok"
    /\ prev.op = "from_slice" /\ prev.outcome = "Ok"

AllSectionsValid(r) == \A k \in SectionIds : r.sections[k].is_valid

FlagEventIds == {100, 200, 999}

\* A loaded container whose slot 1 has every event flag set.
InitFlags ==
    Constructed([LoadedSave(ConsoleHeaderLen, FALSE) EXCEPT
                    !.user_data_x[1].event_flags.flags = <<255, 255>>],
                2)

NextFlags ==
    \/ \E event_id \in FlagEventIds, character_index \in Indexes :
          get_event_flag(event_id, character_index)
    \/ \E event_id \in FlagEventIds, character_index \in Indexes, on \in BOOLEAN :
          set_event_flag(event_id, character_index, on)

SpecFlags == InitFlags /\ [][NextFlags]_vars

\* ------------------------------------------------- claims on the event flags

Flags(r, s) == r.user_data_x[s].event_flags.flags

\* The flag id of a recorded flag call.
FlagIdOf(call) == IF call.op = "set_event_flag" THEN call.arg[1] ELSE call.arg

\* The bit of slot's block that the index gives for id, as stored in r.
FlagValue(r, id, slot) ==
    BitOf(Flags(r, slot)[(FlagIndex[id] \div 8) + 1], FlagIndex[id] % 8) = 1

\* The last call read flag (id, slot) of a valid slot and an indexed id.
ReadFlag ==
    /\ last.op = "get_event_flag" /\ last.outcome = "Ok"

\* C13: set_event_flag(id, slot, b) stores b; get_event_flag(id, slot) right
\* after it returns b; and with a set_event_flag on another id or another slot
\* in between, get_event_flag(id, slot) still returns what the flag was before
\* that other call.
C13_FlagSetThenGet ==
    /\ (last.op = "set_event_flag" /\ last.outcome = "Ok") =>
          FlagValue(raw, last.arg[1], last.index) = last.arg[2]
    /\ (ReadFlag /\ prev.op = "set_event_flag" /\ prev.outcome = "Ok"
            /\ prev.arg[1] = last.arg /\ prev.index = last.index) =>
          last.ret = prev.arg[2]
    /\ (ReadFlag /\ prev.op = "set_event_flag"
            /\ (prev.arg[1] # last.arg \/ prev.index # last.index)) =>
          last.ret = FlagValue(before2, last.arg, last.index)

\* C13 witness: flag 100 of slot 0 was switched on, then flag 200 of the same
\* slot (the neighbouring bit) was switched on, then flag 100 read as true.
C13_Witness ==
    /\ ncalls = 3
    /\ ReadFlag /\ last.arg = 100 /\ last.index = 0 /\ last.ret = TRUE
    /\ prev.op = "set_event_flag" /\ prev.arg = <<200, TRUE>> /\ prev.index = 0
    /\ ~FlagValue(loaded, 100, 0)
    /\ FlagValue(before2, 100, 0)

\* The last call was a flag call with an id absent from the flag index.
UnknownFlagCall ==
    /\ last.op \in {"get_event_flag", "set_event_flag"}
    /\ FlagIdOf(last) \notin DOMAIN FlagIndex

\* The last call returned EventIdNotFound(id) and no flag block changed.
FlagIdNotFound ==
    /\ last.outcome = "Err"
    /\ last.ret = [error |-> "EventIdNotFound", id |-> FlagIdOf(last)]
    /\ \A s \in Slots : Flags(raw, s) = Flags(before, s)

Bits == 0 .. 7

\* C15: a successful set_event_flag(id, slot, value) leaves every bit of every
\* flag block as it was except bit (offset / 8, offset % 8) of slot's block,
\* keeps the blocks' sizes, and changes nothing outside slot's flag block.
C15_SetFlagTouchesOneBit ==
    (last.op = "set_event_flag" /\ last.outcome = "Ok") =>
        LET offset == FlagIndex[last.arg[1]]
        IN  /\ \A s \in Slots :
                  /\ Len(Flags(raw, s)) = Len(Flags(before, s))
                  /\ \A j \in 1 .. Len(Flags(before, s)), b \in Bits :
                        (s # last.index \/ j # (offset \div 8) + 1 \/ b # offset % 8) =>
                            BitOf(Flags(raw, s)[j], b) = BitOf(Flags(before, s)[j], b)
            /\ [raw EXCEPT !.user_data_x[last.index].event_flags.flags =
                              Flags(before, last.index)] = before

\* C15 witness: flag 100 of slot 1 was switched off in a block that had every
\* bit set.
C15_Witness ==
    /\ last.op = "set_event_flag" /\ last.outcome = "Ok"
    /\ last.arg = <<100, FALSE>> /\ last.index = 1
    /\ Flags(before, 1) = <<255, 255>>
    /\ Flags(raw, 1) = <<255, 253>>

\* The stored checksum of section k of a file matches its content.
ChecksumMatches(bytes, k) ==
    bytes.sections[k].checksum =
        Digest(bytes.sections[k].iv, bytes.sections[k].cipher.body)

\* The file has the right length, a known header size and whole cipher blocks.
WellFormed(bytes) ==
    /\ bytes.extra_len = 0
    /\ bytes.header.len \in {ConsoleHeaderLen, PcHeaderLen}
    /\ \A k \in SectionIds : bytes.sections[k].cipher.stray = 0

\* C16: from_slice of a well-formed file succeeds whether or not its checksums
\* match: each section is marked is_valid exactly when its checksum matches
\* and its decoded content is what the container exposes; from_slice of a file
\* with a wrong length, an unknown header size or a misaligned section returns
\* an error and no container (the caller's container is as before).
C16_ChecksumSoftStructureFatal ==
    (last.op = "from_slice") =>
        IF WellFormed(last.arg)
        THEN /\ last.outcome = "Ok"
             /\ \A k \in SectionIds :
                   raw.sections[k].is_valid = ChecksumMatches(last.arg, k)
             /\ \A s \in Slots :
                   raw.user_data_x[s] = last.arg.sections[s].cipher.body.record
             /\ raw.user_data_10.profile_summary =
                   last.arg.sections[NumSlots].cipher.body.profile_summary
             /\ raw.header = last.arg.header
        ELSE /\ last.outcome = "Err"
             /\ last.ret = [error |-> "SaveParserError"]
             /\ raw = before

\* C16 witness: a file whose character section 0 fails checksum verification
\* was loaded, with that section marked invalid and the others valid.
C16_Witness ==
    /\ last.op = "from_slice" /\ last.outcome = "Ok"
    /\ ~ChecksumMatches(last.arg, 0)
    /\ ~raw.sections[0].is_valid
    /\ \A k \in SectionIds \ {0} : raw.sections[k].is_valid
    /\ raw.user_data_x[0] = LoadedUserDataX(0)

\* ------------------------------------------------- regulation (param tables)
\* Regulation::get_param, which SaveApi::get_param delegates to: the archive's
\* param_files map a table name to the table's bytes; a table is decoded row by
\* row through the schema of the requested param type.

\* Bytes of one row of the param tables modelled here.
RowStride == 4

\* The param types requested through get_param::<P>().
ParamTypes == {"TalkParam", "MenuParam"}

\* The schema of a param type: the table it is stored under, its row stride
\* and its fields (byte offset and width, little-endian). Byte 3 of a
\* TalkParam row and bytes 1..2 of a MenuParam row belong to no field.
ParamSchema(P) ==
    IF P = "TalkParam"
    THEN [name |-> "TalkParam", stride |-> RowStride,
          fields |-> [f \in {"msgId", "voiceId"} |->
                        IF f = "msgId" THEN [offset |-> 0, width |-> 1]
                        ELSE [offset |-> 1, width |-> 2]]]
    ELSE [name |-> "MenuParam", stride |-> RowStride,
          fields |-> [f \in {"menuId", "flags"} |->
                        IF f = "menuId" THEN [offset |-> 0, width |-> 1]
                        ELSE [offset |-> 3, width |-> 1]]]

RECURSIVE DecodeLe(_)
\* A little-endian byte sequence as a number.
DecodeLe(bytes) ==
    IF bytes = << >> THEN 0 ELSE Head(bytes) + 256 * DecodeLe(Tail(bytes))

\* A number as width little-endian bytes.
EncodeLe(value, width) ==
    [i \in 1 .. width |-> (value \div (256 ^ (i - 1))) % 256]

\* The field that covers byte position pos (1-based) of a row, if any.
FieldsAt(schema, pos) ==
    {f \in DOMAIN schema.fields :
        /\ schema.fields[f].offset < pos
        /\ pos <= schema.fields[f].offset + schema.fields[f].width}

\* Decode one row: every field from its byte window; the bytes no field
\* covers are kept as they are.
DecodeRow(schema, row_bytes) ==
    [fields |-> [f \in DOMAIN schema.fields |->
                    DecodeLe(SubSeq(row_bytes, schema.fields[f].offset + 1,
                                    schema.fields[f].offset + schema.fields[f].width))],
     unknown |-> [pos \in {q \in 1 .. schema.stride : FieldsAt(schema, q) = {}} |->
                    row_bytes[pos]]]

\* Mutant of EncodeRow: the bytes no field covers are zero-filled.
EncodeRowZeroFill(schema, row) ==
    [pos \in 1 .. schema.stride |->
        IF FieldsAt(schema, pos) = {} THEN 0
        ELSE LET f == CHOOSE g \in FieldsAt(schema, pos) : TRUE
             IN  EncodeLe(row.fields[f], schema.fields[f].width)[pos - schema.fields[f].offset]]

\* Encode one row: every field into its byte window, the other bytes as kept.
EncodeRow(schema, row) ==
    [pos \in 1 .. schema.stride |->
        IF FieldsAt(schema, pos) = {} THEN row.unknown[pos]
        ELSE LET f == CHOOSE g \in FieldsAt(schema, pos) : TRUE
             IN  EncodeLe(row.fields[f], schema.fields[f].width)[pos - schema.fields[f].offset]]

\* Regulation::get_param::<P>(): the table named for P, decoded; the archive
\* lacking that table, or a table whose stride is not the schema's, is an
\* error.
Regulation_get_param(regulation, P) ==
    LET schema == ParamSchema(P)
        param_files == regulation.content.data.file_data.param_files
    IN  IF schema.name \notin DOMAIN param_files
        THEN [ok |-> FALSE,
              error |-> [error |-> "RegulationParseError", what |-> "table not found",
                         table |-> schema.name]]
        ELSE IF param_files[schema.name].stride # schema.stride
        THEN [ok |-> FALSE,
              error |-> [error |-> "RegulationParseError", what |-> "row stride",
                         table |-> schema.name]]
        ELSE [ok |-> TRUE,
              rows |-> [id \in DOMAIN param_files[schema.name].rows |->
                          DecodeRow(schema, param_files[schema.name].rows[id])]]

\* Mutant of get_param: a failed lookup is turned into an empty row map.
get_param_or_empty(P) ==
    /\ Callable
    /\ Call("get_param", NoIndex, P,
            LET res == Regulation_get_param(raw.user_data_11.regulation, P)
            IN  IF res.ok THEN Ret(raw, [rows |-> res.rows])
                ELSE Ret(raw, [rows |-> << >>]))

\* get_param::<P>(): the rows of Regulation::get_param, or its error.
get_param(P) ==
    /\ Callable
    /\ Call("get_param", NoIndex, P,
            LET res == Regulation_get_param(raw.user_data_11.regulation, P)
            IN  IF res.ok THEN Ret(raw, [rows |-> res.rows])
                ELSE Err(raw, res.error))

\* get_param_bytes_map: the archive's table-name -> bytes map, undecoded.
get_param_bytes_map ==
    /\ Callable
    /\ Call("get_param_bytes_map", NoIndex, NoArg,
            Ret(raw, raw.user_data_11.regulation.content.data.file_data.param_files))

\* Row bytes of the loaded tables: every mix of 0x00 and 0xff, and a row of
\* four different bytes.
RowBytes == [1 .. RowStride -> {0, 255}] \cup {<<1, 2, 3, 4>>}

\* Strides declared by a loaded table: the schema's, and a longer one.
TableStrides == {RowStride, RowStride + 4}

\* The regulation of a loaded container: a TalkParam table of two rows, and a
\* MenuParam table of one row or none.
LoadedRegulation(row10, row20, with_menu, stride) ==
    LET talk == [stride |-> stride, rows |-> [id \in {10, 20} |-> IF id = 10 THEN row10 ELSE row20]]
        menu == [stride |-> RowStride, rows |-> [id \in {5} |-> row20]]
    IN  [content |-> [data |-> [file_data |-> [param_files |->
            IF with_menu
            THEN [name \in {"TalkParam", "MenuParam"} |->
                    IF name = "TalkParam" THEN talk ELSE menu]
            ELSE [name \in {"TalkParam"} |-> talk]]]]]

InitParams ==
    \E row10 \in RowBytes, row20 \in RowBytes, with_menu \in BOOLEAN,
       stride \in TableStrides :
        Constructed([LoadedSave(ConsoleHeaderLen, FALSE) EXCEPT
                        !.user_data_11.regulation =
                            LoadedRegulation(row10, row20, with_menu, stride)],
                    2)

NextParams ==
    \/ \E P \in ParamTypes : get_param(P)
    \/ get_param_bytes_map

SpecParams == InitParams /\ [][NextParams]_vars

\* ------------------------------------------------ claims on the param tables

ParamFiles(r) == r.user_data_11.regulation.content.data.file_data.param_files

\* C17: every row get_param returns, re-encoded through the schema without a
\* change, is byte for byte the row stored in the table, the bytes no field
\* covers included.
C17_RowDecodeEncodeIdentity ==
    (last.op = "get_param" /\ last.outcome = "Ok") =>
        LET schema == ParamSchema(last.arg)
            table == ParamFiles(raw)[schema.name]
        IN  /\ DOMAIN last.ret.rows = DOMAIN table.rows
            /\ \A id \in DOMAIN table.rows :
                  EncodeRow(schema, last.ret.rows[id]) = table.rows[id]

\* C17 witness: a TalkParam row whose unknown byte is non-zero was decoded.
C17_Witness ==
    /\ last.op = "get_param" /\ last.outcome = "Ok" /\ last.arg = "TalkParam"
    /\ ParamFiles(raw)["TalkParam"].rows[10] = <<1, 2, 3, 4>>
    /\ last.ret.rows[10].fields["voiceId"] = 770
    /\ last.ret.rows[10].unknown[4] = 4

\* C18: get_param::<P>() on a container whose archive has no table named for
\* P returns an error result (no crash, no row map) and leaves the container
\* unchanged.
C18_MissingTableIsError ==
    (last.op = "get_param" /\ ParamSchema(last.arg).name \notin DOMAIN ParamFiles(before)) =>
        /\ last.outcome = "Err"
        /\ last.ret.error = "RegulationParseError"
        /\ last.ret.table = ParamSchema(last.arg).name
        /\ raw = before

\* C18 witness: get_param::<MenuParam>() on an archive without that table.
C18_Witness ==
    /\ last.op = "get_param" /\ last.arg = "MenuParam"
    /\ "MenuParam" \notin DOMAIN ParamFiles(raw)
    /\ last.outcome = "Err"
    /\ prev.op = "get_param" /\ prev.outcome = "Ok"

\* --------------------------------------------- claims on the mirrored reads

\* The first slot whose character record's name contains name, or None: the
\* lookup of character_index_from_name taken over the records.
RecordPosition(r, name) ==
    LET hits == {s \in Slots : Contains(Pgd(r, s).character_name, name)}
    IN  IF hits = {} THEN [some |-> FALSE]
        ELSE [some |-> TRUE, value |-> CHOOSE s \in hits : \A t \in hits : s <= t]

\* C19: every read of a mirrored field returns the value of the character
\* record user_data_x[i], and character_index_from_name finds the slot by the
\* records' names, whatever the profile-summary entries hold.
C19_ReadsUseRecord ==
    /\ (last.op \in {"level", "gender", "archetype", "runes_memory"}
            /\ last.outcome = "Ok") =>
          last.ret = Pgd(raw, last.index)[last.op]
    /\ (last.op = "character_name" /\ last.outcome = "Ok") =>
          last.ret = Pgd(raw, last.index).character_name
    /\ (last.op = "character_index_from_name") =>
          last.ret = RecordPosition(raw, last.arg)

\* ------------------------------------------------ claims on add_region's cut

\* The elements of seq.
Range(seq) == {seq[k] : k \in 1 .. Len(seq)}

\* C20: add_region(i, r) with r not in slot i's ids leaves rest 4 bytes
\* shorter, and what is left is the first len - 4 bytes of the rest before
\* the call.
C20_AddRegionDropsLastFour ==
    (last.op = "add_region" /\ IndexInBounds(last.index)
        /\ last.arg \notin Range(Ids(before, last.index))) =>
        /\ Len(Rest(raw, last.index)) = Len(Rest(before, last.index)) - RegionIdBytes
        /\ Rest(raw, last.index) =
              SubSeq(Rest(before, last.index), 1,
                     Len(Rest(before, last.index)) - RegionIdBytes)

\* --------------------------------------------- claims on the region operations

\* The last call was op(i, r) on a valid slot with r in the slot's ids
\* (present = TRUE) or not in them (present = FALSE) before the call.
RegionCall(op, present) ==
    /\ last.op = op /\ IndexInBounds(last.index)
    /\ (last.arg \in Range(Ids(before, last.index))) = present

\* C21: remove_region(i, r) with r in slot i's ids returns Ok and leaves
\* rest 4 bytes longer: the bytes it had, in place, followed by 4 zero bytes.
C21_RemoveRegionPadsFourZeros ==
    RegionCall("remove_region", TRUE) =>
        /\ last.outcome = "Ok"
        /\ Len(Rest(raw, last.index)) = Len(Rest(before, last.index)) + RegionIdBytes
        /\ \A k \in 1 .. Len(Rest(before, last.index)) :
              Rest(raw, last.index)[k] = Rest(before, last.index)[k]
        /\ \A k \in (Len(Rest(before, last.index)) + 1) .. Len(Rest(raw, last.index)) :
              Rest(raw, last.index)[k] = 0

\* C21 witness: an id was removed from a slot whose rest held non-zero bytes.
C21_Witness ==
    /\ RegionCall("remove_region", TRUE)
    /\ Rest(before, last.index) = <<1, 2, 3, 4, 5>>
    /\ Rest(raw, last.index) = <<1, 2, 3, 4, 5, 0, 0, 0, 0>>

\* The region operations together with the two region getters, on a loaded
\* container whose slot 0 has room for two more region ids.
InitRegionReads ==
    \E ids \in RegionIdLists :
        Constructed([LoadedSave(ConsoleHeaderLen, FALSE) EXCEPT
                        !.user_data_x[0].rest = <<1, 2, 3, 4, 5, 6, 7, 8>>,
                        !.user_data_x[0].unlocked_regions =
                            [count |-> Len(ids), ids |-> ids]],
                    2)

NextRegionReads ==
    \/ \E index \in Indexes, region_id \in RegionIds : add_region(index, region_id)
    \/ \E index \in Indexes, region_id \in RegionIds : remove_region(index, region_id)
    \/ \E index \in Indexes : regions(index)
    \/ \E index \in Indexes : regions_count(index)

SpecRegionReads == InitRegionReads /\ [][NextRegionReads]_vars

\* count equals the number of ids in slot s of r.
CountCoupled(r, s) == Count(r, s) = Len(Ids(r, s))

\* C22: a slot whose count equals len(ids) at load still has them equal after
\* any sequence of add_region / remove_region calls on any slots, and
\* regions_count(i) returns the length of what regions(i) returns.
C22_CountMatchesIds ==
    /\ \A s \in Slots : CountCoupled(loaded, s) => CountCoupled(raw, s)
    /\ (last.op = "regions_count" /\ last.outcome = "Ok"
            /\ CountCoupled(loaded, last.index)) =>
          last.ret = Len(Ids(raw, last.index))
    /\ (last.op = "regions" /\ last.outcome = "Ok"
            /\ CountCoupled(loaded, last.index)) =>
          /\ last.ret = Ids(raw, last.index)
          /\ Len(last.ret) = Count(raw, last.index)

\* C22 witness: regions_count of slot 0 was read after two calls that each
\* changed its ids.
C22_Witness ==
    /\ ncalls = 3
    /\ last.op = "regions_count" /\ last.index = 0 /\ last.outcome = "Ok"
    /\ prev.op = "remove_region" /\ prev.index = 0
    /\ Ids(raw, 0) # Ids(before2, 0)
    /\ Ids(before2, 0) # Ids(loaded, 0)
    /\ last.ret = Len(Ids(raw, 0))

\* seq has no element twice.
NoDuplicate(seq) ==
    \A j \in 1 .. Len(seq), k \in 1 .. Len(seq) : seq[j] = seq[k] => j = k

\* C23: add_region(i, r) with r in slot i's ids returns Ok and changes nothing
\* in the container; and a slot whose ids had no duplicate at load has none
\* after any sequence of add_region / remove_region calls.
C23_AddPresentIsNoOp ==
    /\ RegionCall("add_region", TRUE) => (last.outcome = "Ok" /\ raw = before)
    /\ \A s \in Slots : NoDuplicate(Ids(loaded, s)) => NoDuplicate(Ids(raw, s))

\* C23 witness: the same id was added to the same slot twice in a row; the
\* first call appended it, the second changed nothing.
C23_Witness ==
    /\ RegionCall("add_region", TRUE) /\ last.outcome = "Ok"
    /\ prev.op = "add_region" /\ prev.index = last.index /\ prev.arg = last.arg
    /\ last.arg \notin Range(Ids(before2, last.index))
    /\ raw = before /\ before # before2

\* C24: remove_region(i, r) with r not in slot i's ids returns Ok and changes
\* nothing: ids, count and rest are as before (rest does not grow).
C24_RemoveAbsentIsNoOp ==
    RegionCall("remove_region", FALSE) =>
        /\ last.outcome = "Ok"
        /\ Ids(raw, last.index) = Ids(before, last.index)
        /\ Count(raw, last.index) = Count(before, last.index)
        /\ Rest(raw, last.index) = Rest(before, last.index)
        /\ raw = before

\* C24 witness: an id was removed twice in a row; the second call found it
\* absent and changed nothing.
C24_Witness ==
    /\ RegionCall("remove_region", FALSE) /\ last.outcome = "Ok"
    /\ prev.op = "remove_region" /\ prev.index = last.index /\ prev.arg = last.arg
    /\ before # before2
    /\ raw = before

\* now is was with its k-th element taken out.
WithoutAt(was, now, k) ==
    /\ Len(now) = Len(was) - 1
    /\ \A j \in 1 .. (k - 1) : now[j] = was[j]
    /\ \A j \in k .. Len(now) : now[j] = was[j + 1]

\* C25: add_region of an absent id leaves every id where it was and puts the
\* new id after them; remove_region of a present id takes out its first
\* occurrence and nothing else, the other ids keeping their order.
C25_RegionOrderKept ==
    /\ RegionCall("add_region", FALSE) =>
          LET was == Ids(before, last.index)
              now == Ids(raw, last.index)
          IN  /\ Len(now) = Len(was) + 1
              /\ \A j \in 1 .. Len(was) : now[j] = was[j]
              /\ now[Len(now)] = last.arg
    /\ RegionCall("remove_region", TRUE) =>
          LET was == Ids(before, last.index)
              now == Ids(raw, last.index)
          IN  \E k \in 1 .. Len(was) :
                  /\ was[k] = last.arg
                  /\ \A j \in 1 .. (k - 1) : was[j] # last.arg
                  /\ WithoutAt(was, now, k)

\* C25 witness: 1000 was removed from <<1000, 2000, 1000>>, leaving
\* <<2000, 1000>>.
C25_Witness ==
    /\ RegionCall("remove_region", TRUE) /\ last.arg = 1000
    /\ Ids(before, last.index) = <<1000, 2000, 1000>>
    /\ Ids(raw, last.index) = <<2000, 1000>>

\* The last two calls were remove_region(s, r), with r in the ids before it,
\* and add_region(s, r).
RemoveThenAdd(s, r) ==
    /\ prev.op = "remove_region" /\ last.op = "add_region"
    /\ prev.index = s /\ last.index = s
    /\ prev.arg = r /\ last.arg = r
    /\ r \in Range(Ids(before2, s))

\* How many times r occurs in seq.
Occurrences(seq, r) == Cardinality({k \in 1 .. Len(seq) : seq[k] = r})

\* C26 (as claimed): remove_region(s, r) of a present id immediately followed
\* by add_region(s, r) restores rest and count of slot s exactly.
C26_RemoveAddRestores ==
    \A s \in Slots, r \in RegionIds :
        RemoveThenAdd(s, r) =>
            /\ last.outcome = "Ok" /\ prev.outcome = "Ok"
            /\ Rest(raw, s) = Rest(before2, s)
            /\ Count(raw, s) = Count(before2, s)

\* C26 (amended): so it is when r occurs exactly once in the ids, and then r
\* is the last id; when r occurs more than once the removal leaves an
\* occurrence, the addition changes nothing, and the slot is left with rest
\* 4 zero bytes longer and count one less.
C26_RemoveAddRestoresSingle ==
    \A s \in Slots, r \in RegionIds :
        RemoveThenAdd(s, r) =>
            /\ last.outcome = "Ok" /\ prev.outcome = "Ok"
            /\ IF Occurrences(Ids(before2, s), r) = 1
               THEN /\ Rest(raw, s) = Rest(before2, s)
                    /\ Count(raw, s) = Count(before2, s)
                    /\ Len(Ids(raw, s)) = Len(Ids(before2, s))
                    /\ Ids(raw, s)[Len(Ids(raw, s))] = r
               ELSE /\ Rest(raw, s) = Rest(before2, s) \o ZeroPad
                    /\ Count(raw, s) = Count(before2, s) - 1

\* C26 witness: 2000 was removed from <<2000, 1000>> and added again, with a
\* rest that ends in non-zero bytes.
C26_Witness ==
    /\ RemoveThenAdd(0, 2000)
    /\ Ids(before2, 0) = <<2000, 1000>>
    /\ Ids(raw, 0) = <<1000, 2000>>
    /\ Rest(before2, 0) = <<1, 2, 3, 4, 5>>
    /\ Rest(before, 0) = <<1, 2, 3, 4, 5, 0, 0, 0, 0>>
    /\ Rest(raw, 0) = <<1, 2, 3, 4, 5>>

\* C27: add_region(i, r) and remove_region(i, r) change nothing but
\* unlocked_regions and rest of slot i: with those two put back, the container
\* is the one before the call.
C27_RegionCallsFrame ==
    (last.op \in {"add_region", "remove_region"} /\ IndexInBounds(last.index)) =>
        /\ [raw EXCEPT
              !.user_data_x[last.index].unlocked_regions =
                  before.user_data_x[last.index].unlocked_regions,
              !.user_data_x[last.index].rest = Rest(before, last.index)] = before
        /\ Pgd(raw, last.index) = Pgd(before, last.index)
        /\ Gestures(raw, last.index) = Gestures(before, last.index)
        /\ \A j \in Slots \ {last.index} : raw.user_data_x[j] = before.user_data_x[j]
        /\ raw.user_data_10 = before.user_data_10

\* C27 witness: a region was removed from slot 1 after slot 0 was edited.
C27_Witness ==
    /\ last.op = "remove_region" /\ last.index = 1 /\ last.outcome = "Ok"
    /\ Ids(raw, 1) # Ids(before, 1)
    /\ Rest(raw, 1) # Rest(before, 1)
    /\ before.user_data_x[0] # loaded.user_data_x[0]

\* ------------------------------------------- claims on the non-mirrored setters

\* The field of player_game_data a non-mirrored setter is named for.
StatFieldOf(op) ==
    CASE op = "set_hp" -> "hp" []
         op = "set_max_hp" -> "max_hp" []
         op = "set_base_max_hp" -> "base_max_hp" []
         op = "set_fp" -> "fp" []
         op = "set_max_fp" -> "max_fp" []
         op = "set_base_max_fp" -> "base_max_fp" []
         op = "set_sp" -> "sp" []
         op = "set_max_sp" -> "max_sp" []
         op = "set_base_max_sp" -> "base_max_sp" []
         op = "set_vigor" -> "vigor" []
         op = "set_mind" -> "mind" []
         op = "set_endurance" -> "endurance" []
         op = "set_strength" -> "strength" []
         op = "set_dexterity" -> "dexterity" []
         op = "set_intelligence" -> "intelligence" []
         op = "set_faith" -> "faith" []
         op = "set_arcane" -> "arcane" []
         op = "set_runes" -> "runes"

\* The getters of the non-mirrored fields (fp and sp have a setter but no
\* getter).
StatGetters ==
    {"hp", "max_hp", "base_max_hp", "max_fp", "base_max_fp", "max_sp", "base_max_sp", "vigor", "mind", "endurance", "strength", "dexterity", "intelligence", "faith", "arcane", "runes"}

\* C28: a non-mirrored setter called with slot i and value v returns Ok and
\* leaves the container as it was but for the one field of
\* user_data_x[i].player_game_data it is named for, which holds v; and each
\* getter of such a field returns the field's value of the indexed record.
C28_StatSetterWritesOneField ==
    /\ (last.op \in StatSetters /\ IndexInBounds(last.index)) =>
          /\ last.outcome = "Ok"
          /\ Pgd(raw, last.index)[StatFieldOf(last.op)] = last.arg
          /\ raw = [before EXCEPT
                      !.user_data_x[last.index].player_game_data[StatFieldOf(last.op)] =
                          last.arg]
    /\ (last.op \in StatGetters /\ last.outcome = "Ok") =>
          last.ret = Pgd(raw, last.index)[last.op]

\* C28 witness: max_fp(1) returned the 77 that set_max_fp(1, 77) had written.
C28_Witness ==
    /\ last.op = "max_fp" /\ last.index = 1 /\ last.ret = 77
    /\ Pgd(loaded, 1).max_fp = 0
    /\ Pgd(before, 1).max_fp = 77
    /\ [before EXCEPT !.user_data_x[1].player_game_data.max_fp = 0] = loaded

\* ---------------------------------------------------- claims on the name lookup

\* Slots named in the lookup specification: an active slot, an inactive slot
\* and the first index out of bounds.
NameIndexes == {0, 2, NumSlots}

\* Renaming and looking up characters on a loaded container whose slots 0 and 1
\* are active and named and whose other slots are inactive.
InitNames ==
    \E stale \in BOOLEAN :
        Constructed(LoadedSave(ConsoleHeaderLen, stale), 2)

NextNames ==
    \/ \E index \in NameIndexes, new_name \in Names : set_character_name(index, new_name)
    \/ \E name \in Names : character_index_from_name(name)
    \/ \E index \in NameIndexes : character_name(index)
    \/ active_characters

SpecNames == InitNames /\ [][NextNames]_vars

\* The profile-summary name of slot s of r has name as a substring.
NameMatches(r, s, name) == Contains(Profile(r, s).character_name, name)

\* C29: character_index_from_name(name) returns the lowest slot whose
\* profile-summary name matches (contains) name, whether or not the slot is
\* marked active, and None when no slot matches; called right after a
\* set_character_name(i, n) that returned Ok, with the name n, it returns
\* Some(j) with j <= i.
C29_LowestMatchingSlot ==
    /\ last.op = "character_index_from_name" =>
          /\ last.outcome = "Ok"
          /\ raw = before
          /\ IF last.ret.some
             THEN /\ last.ret.value \in Slots
                  /\ NameMatches(raw, last.ret.value, last.arg)
                  /\ \A s \in Slots : s < last.ret.value => ~NameMatches(raw, s, last.arg)
             ELSE \A s \in Slots : ~NameMatches(raw, s, last.arg)
    /\ (/\ last.op = "character_index_from_name"
        /\ prev.op = "set_character_name" /\ prev.outcome = "Ok"
        /\ last.arg = prev.arg) =>
          /\ last.ret.some
          /\ last.ret.value <= prev.index

\* C29 witness: after slot 0 was renamed "A" and the inactive slot 2 was named
\* "B", the lookup of "B" returned Some(2).
C29_Witness ==
    /\ last.op = "character_index_from_name" /\ last.arg = <<"B">>
    /\ prev.op = "set_character_name" /\ prev.index = 2 /\ prev.outcome = "Ok"
    /\ prev.arg = <<"B">>
    /\ last.ret = [some |-> TRUE, value |-> 2]
    /\ ~raw.user_data_10.profile_summary.active_profiles[2]
    /\ Profile(raw, 0).character_name = <<"A">>
    /\ Profile(loaded, 0).character_name = <<"A", "B">>

\* ------------------------------- the facade as defined in save_api.rs (twins)

\* save_api.rs defines in one impl block the operations the split modules
\* define again. Each SaveApi_<name> below is the save_api.rs definition of
\* <name>; a call of either is recorded under the facade method's name.

\* SaveApi::platform of save_api.rs.
SaveApi_platform ==
    /\ Callable
    /\ Call("platform", NoIndex, NoArg, Ret(raw, PlatformOf(raw)))

\* SaveApi::steam_id of save_api.rs.
SaveApi_steam_id ==
    /\ Callable
    /\ Call("steam_id", NoIndex, NoArg, Ret(raw, raw.user_data_10.steam_id))

\* SaveApi::set_steam_id of save_api.rs.
SaveApi_set_steam_id(value) ==
    /\ Callable
    /\ Call("set_steam_id", NoIndex, value,
            Ok([raw EXCEPT !.user_data_10.steam_id = value]))

\* SaveApi::character_index_from_name of save_api.rs.
SaveApi_character_index_from_name(name) ==
    /\ Callable
    /\ Call("character_index_from_name", NoIndex, name,
            Ret(raw, PositionContaining(raw, name)))

\* SaveApi::active_characters of save_api.rs.
SaveApi_active_characters ==
    /\ Callable
    /\ Call("active_characters", NoIndex, NoArg,
            Ret(raw, raw.user_data_10.profile_summary.active_profiles))

\* SaveApi::set_archetype of save_api.rs.
SaveApi_set_archetype(index, value) ==
    /\ Callable
    /\ Call("set_archetype", index, value,
            IF IndexInBounds(index)
            THEN Ok(SetProfile(SetPgd(raw, index, "archetype", value),
                               index, "archetype", value))
            ELSE Panic(raw))

\* SaveApi::set_level of save_api.rs.
SaveApi_set_level(index, value) ==
    /\ Callable
    /\ Call("set_level", index, value,
            IF IndexInBounds(index)
            THEN Ok(SetProfile(SetPgd(raw, index, "level", value),
                               index, "level", value))
            ELSE Panic(raw))

\* SaveApi::set_runes_memory of save_api.rs.
SaveApi_set_runes_memory(index, value) ==
    /\ Callable
    /\ Call("set_runes_memory", index, value,
            IF IndexInBounds(index)
            THEN Ok(SetProfile(SetPgd(raw, index, "runes_memory", value),
                               index, "runes_memory", value))
            ELSE Panic(raw))

\* SaveApi::set_character_name of save_api.rs.
SaveApi_set_character_name(index, new_name) ==
    /\ Callable
    /\ Call("set_character_name", index, new_name,
            IF IndexInBounds(index)
            THEN Ok(SetProfile(SetPgd(raw, index, "character_name", to_string(new_name)),
                               index, "character_name", to_string(new_name)))
            ELSE Panic(raw))

\* SaveApi::set_gender of save_api.rs.
SaveApi_set_gender(index, value) ==
    /\ Callable
    /\ Call("set_gender", index, value,
            IF IndexInBounds(index)
            THEN Ok(SetProfile(SetPgd(raw, index, "gender", value),
                               index, "gender", value))
            ELSE Panic(raw))

\* SaveApi::character_name of save_api.rs.
SaveApi_character_name(index) ==
    /\ Callable
    /\ Call("character_name", index, NoArg,
            IF IndexInBounds(index)
            THEN Ret(raw, to_string(raw.user_data_x[index].player_game_data.character_name))
            ELSE Panic(raw))

\* SaveApi::regions of save_api.rs.
SaveApi_regions(index) ==
    /\ Callable
    /\ Call("regions", index, NoArg,
            IF IndexInBounds(index)
            THEN Ret(raw, raw.user_data_x[index].unlocked_regions.ids)
            ELSE Panic(raw))

\* SaveApi::regions_count of save_api.rs.
SaveApi_regions_count(index) ==
    /\ Callable
    /\ Call("regions_count", index, NoArg,
            IF IndexInBounds(index)
            THEN Ret(raw, raw.user_data_x[index].unlocked_regions.count)
            ELSE Panic(raw))

\* Mutant of SaveApi_add_region: rest keeps its length.
SaveApi_add_region_no_truncate(index, region_id) ==
    /\ Callable
    /\ Call("add_region", index, region_id,
            IF ~IndexInBounds(index) THEN Panic(raw)
            ELSE IF Position(raw.user_data_x[index].unlocked_regions.ids, region_id) # 0
                 THEN Ok(raw)
            ELSE Ok([raw EXCEPT
                        !.user_data_x[index].unlocked_regions.ids = Append(@, region_id),
                        !.user_data_x[index].unlocked_regions.count = @ + 1]))

\* SaveApi::add_region of save_api.rs, write by write: user_data_x borrows the
\* indexed record; when position() finds nothing, after_push, after_count and
\* after_truncate are the record after each of the three statements.
\* `rest_len - 4` panics under overflow checks when rest_len < 4 and otherwise
\* wraps past the end of rest, where truncate cuts nothing.
SaveApi_add_region(index, region_id) ==
    /\ Callable
    /\ \E checks \in BOOLEAN :
        Call("add_region", index, region_id,
             IF ~IndexInBounds(index) THEN Panic(raw)
             ELSE LET user_data_x == raw.user_data_x[index]
                      after_push ==
                          [user_data_x EXCEPT !.unlocked_regions.ids = Append(@, region_id)]
                      after_count ==
                          [after_push EXCEPT !.unlocked_regions.count = @ + 1]
                      rest_len == Len(after_count.rest)
                      after_truncate ==
                          [after_count EXCEPT
                              !.rest = Truncate(@, rest_len - RegionIdBytes)]
                  IN  IF Position(user_data_x.unlocked_regions.ids, region_id) # 0
                      THEN Ok(raw)
                      ELSE IF rest_len >= RegionIdBytes
                      THEN Ok([raw EXCEPT !.user_data_x[index] = after_truncate])
                      ELSE IF checks
                      THEN Panic([raw EXCEPT !.user_data_x[index] = after_count])
                      ELSE Ok([raw EXCEPT !.user_data_x[index] = after_count]))

\* SaveApi::remove_region of save_api.rs, write by write: when position()
\* returns Some(region_index), after_remove, after_count and after_extend are
\* the record after each of the three statements.
SaveApi_remove_region(index, region_id) ==
    /\ Callable
    /\ Call("remove_region", index, region_id,
            IF ~IndexInBounds(index) THEN Panic(raw)
            ELSE LET user_data_x == raw.user_data_x[index]
                     region_index == Position(user_data_x.unlocked_regions.ids, region_id)
                     after_remove ==
                         [user_data_x EXCEPT
                             !.unlocked_regions.ids = Remove(@, region_index)]
                     after_count ==
                         [after_remove EXCEPT !.unlocked_regions.count = @ - 1]
                     after_extend ==
                         [after_count EXCEPT
                             !.rest = @ \o [j \in 1 .. RegionIdBytes |-> 0]]
                 IN  IF region_index = 0 THEN Ok(raw)
                     ELSE Ok([raw EXCEPT !.user_data_x[index] = after_extend]))

\* SaveApi::set_hp of save_api.rs.
SaveApi_set_hp(index, value) ==
    /\ Callable
    /\ Call("set_hp", index, value,
            IF IndexInBounds(index)
            THEN Ok(SetPgd(raw, index, "hp", value))
            ELSE Panic(raw))

\* SaveApi::set_max_hp of save_api.rs.
SaveApi_set_max_hp(index, value) ==
    /\ Callable
    /\ Call("set_max_hp", index, value,
            IF IndexInBounds(index)
            THEN Ok(SetPgd(raw, index, "max_hp", value))
            ELSE Panic(raw))

\* SaveApi::set_base_max_hp of save_api.rs.
SaveApi_set_base_max_hp(index, value) ==
    /\ Callable
    /\ Call("set_base_max_hp", index, value,
            IF IndexInBounds(index)
            THEN Ok(SetPgd(raw, index, "base_max_hp", value))
            ELSE Panic(raw))

\* SaveApi::set_fp of save_api.rs.
SaveApi_set_fp(index, value) ==
    /\ Callable
    /\ Call("set_fp", index, value,
            IF IndexInBounds(index)
            THEN Ok(SetPgd(raw, index, "fp", value))
            ELSE Panic(raw))

\* SaveApi::set_max_fp of save_api.rs.
SaveApi_set_max_fp(index, value) ==
    /\ Callable
    /\ Call("set_max_fp", index, value,
            IF IndexInBounds(index)
            THEN Ok(SetPgd(raw, index, "max_fp", value))
            ELSE Panic(raw))

\* SaveApi::set_base_max_fp of save_api.rs.
SaveApi_set_base_max_fp(index, value) ==
    /\ Callable
    /\ Call("set_base_max_fp", index, value,
            IF IndexInBounds(index)
            THEN Ok(SetPgd(raw, index, "base_max_fp", value))
            ELSE Panic(raw))

\* SaveApi::set_sp of save_api.rs.
SaveApi_set_sp(index, value) ==
    /\ Callable
    /\ Call("set_sp", index, value,
            IF IndexInBounds(index)
            THEN Ok(SetPgd(raw, index, "sp", value))
            ELSE Panic(raw))

\* SaveApi::set_max_sp of save_api.rs.
SaveApi_set_max_sp(index, value) ==
    /\ Callable
    /\ Call("set_max_sp", index, value,
            IF IndexInBounds(index)
            THEN Ok(SetPgd(raw, index, "max_sp", value))
            ELSE Panic(raw))

\* SaveApi::set_base_max_sp of save_api.rs.
SaveApi_set_base_max_sp(index, value) ==
    /\ Callable
    /\ Call("set_base_max_sp", index, value,
            IF IndexInBounds(index)
            THEN Ok(SetPgd(raw, index, "base_max_sp", value))
            ELSE Panic(raw))

\* SaveApi::set_vigor of save_api.rs.
SaveApi_set_vigor(index, value) ==
    /\ Callable
    /\ Call("set_vigor", index, value,
            IF IndexInBounds(index)
            THEN Ok(SetPgd(raw, index, "vigor", value))
            ELSE Panic(raw))

\* SaveApi::set_mind of save_api.rs.
SaveApi_set_mind(index, value) ==
    /\ Callable
    /\ Call("set_mind", index, value,
            IF IndexInBounds(index)
            THEN Ok(SetPgd(raw, index, "mind", value))
            ELSE Panic(raw))

\* SaveApi::set_endurance of save_api.rs.
SaveApi_set_endurance(index, value) ==
    /\ Callable
    /\ Call("set_endurance", index, value,
            IF IndexInBounds(index)
            THEN Ok(SetPgd(raw, index, "endurance", value))
            ELSE Panic(raw))

\* SaveApi::set_strength of save_api.rs.
SaveApi_set_strength(index, value) ==
    /\ Callable
    /\ Call("set_strength", index, value,
            IF IndexInBounds(index)
            THEN Ok(SetPgd(raw, index, "strength", value))
            ELSE Panic(raw))

\* SaveApi::set_dexterity of save_api.rs.
SaveApi_set_dexterity(index, value) ==
    /\ Callable
    /\ Call("set_dexterity", index, value,
            IF IndexInBounds(index)
            THEN Ok(SetPgd(raw, index, "dexterity", value))
            ELSE Panic(raw))

\* SaveApi::set_intelligence of save_api.rs.
SaveApi_set_intelligence(index, value) ==
    /\ Callable
    /\ Call("set_intelligence", index, value,
            IF IndexInBounds(index)
            THEN Ok(SetPgd(raw, index, "intelligence", value))
            ELSE Panic(raw))

\* SaveApi::set_faith of save_api.rs.
SaveApi_set_faith(index, value) ==
    /\ Callable
    /\ Call("set_faith", index, value,
            IF IndexInBounds(index)
            THEN Ok(SetPgd(raw, index, "faith", value))
            ELSE Panic(raw))

\* SaveApi::set_arcane of save_api.rs.
SaveApi_set_arcane(index, value) ==
    /\ Callable
    /\ Call("set_arcane", index, value,
            IF IndexInBounds(index)
            THEN Ok(SetPgd(raw, index, "arcane", value))
            ELSE Panic(raw))

\* SaveApi::set_runes of save_api.rs.
SaveApi_set_runes(index, value) ==
    /\ Callable
    /\ Call("set_runes", index, value,
            IF IndexInBounds(index)
            THEN Ok(SetPgd(raw, index, "runes", value))
            ELSE Panic(raw))

\* SaveApi::hp of save_api.rs.
SaveApi_hp(index) ==
    /\ Callable
    /\ Call("hp", index, NoArg,
            IF IndexInBounds(index)
            THEN Ret(raw, raw.user_data_x[index].player_game_data.hp)
            ELSE Panic(raw))

\* SaveApi::max_hp of save_api.rs.
SaveApi_max_hp(index) ==
    /\ Callable
    /\ Call("max_hp", index, NoArg,
            IF IndexInBounds(index)
            THEN Ret(raw, raw.user_data_x[index].player_game_data.max_hp)
            ELSE Panic(raw))

\* SaveApi::base_max_hp of save_api.rs.
SaveApi_base_max_hp(index) ==
    /\ Callable
    /\ Call("base_max_hp", index, NoArg,
            IF IndexInBounds(index)
            THEN Ret(raw, raw.user_data_x[index].player_game_data.base_max_hp)
            ELSE Panic(raw))

\* SaveApi::max_fp of save_api.rs.
SaveApi_max_fp(index) ==
    /\ Callable
    /\ Call("max_fp", index, NoArg,
            IF IndexInBounds(index)
            THEN Ret(raw, raw.user_data_x[index].player_game_data.max_fp)
            ELSE Panic(raw))

\* SaveApi::base_max_fp of save_api.rs.
SaveApi_base_max_fp(index) ==
    /\ Callable
    /\ Call("base_max_fp", index, NoArg,
            IF IndexInBounds(index)
            THEN Ret(raw, raw.user_data_x[index].player_game_data.base_max_fp)
            ELSE Panic(raw))

\* SaveApi::max_sp of save_api.rs.
SaveApi_max_sp(index) ==
    /\ Callable
    /\ Call("max_sp", index, NoArg,
            IF IndexInBounds(index)
            THEN Ret(raw, raw.user_data_x[index].player_game_data.max_sp)
            ELSE Panic(raw))

\* SaveApi::base_max_sp of save_api.rs.
SaveApi_base_max_sp(index) ==
    /\ Callable
    /\ Call("base_max_sp", index, NoArg,
            IF IndexInBounds(index)
            THEN Ret(raw, raw.user_data_x[index].player_game_data.base_max_sp)
            ELSE Panic(raw))

\* SaveApi::level of save_api.rs.
SaveApi_level(index) ==
    /\ Callable
    /\ Call("level", index, NoArg,
            IF IndexInBounds(index)
            THEN Ret(raw, raw.user_data_x[index].player_game_data.level)
            ELSE Panic(raw))

\* SaveApi::vigor of save_api.rs.
SaveApi_vigor(index) ==
    /\ Callable
    /\ Call("vigor", index, NoArg,
            IF IndexInBounds(index)
            THEN Ret(raw, raw.user_data_x[index].player_game_data.vigor)
            ELSE Panic(raw))

\* SaveApi::mind of save_api.rs.
SaveApi_mind(index) ==
    /\ Callable
    /\ Call("mind", index, NoArg,
            IF IndexInBounds(index)
            THEN Ret(raw, raw.user_data_x[index].player_game_data.mind)
            ELSE Panic(raw))

\* SaveApi::endurance of save_api.rs.
SaveApi_endurance(index) ==
    /\ Callable
    /\ Call("endurance", index, NoArg,
            IF IndexInBounds(index)
            THEN Ret(raw, raw.user_data_x[index].player_game_data.endurance)
            ELSE Panic(raw))

\* SaveApi::strength of save_api.rs.
SaveApi_strength(index) ==
    /\ Callable
    /\ Call("strength", index, NoArg,
            IF IndexInBounds(index)
            THEN Ret(raw, raw.user_data_x[index].player_game_data.strength)
            ELSE Panic(raw))

\* SaveApi::dexterity of save_api.rs.
SaveApi_dexterity(index) ==
    /\ Callable
    /\ Call("dexterity", index, NoArg,
            IF IndexInBounds(index)
            THEN Ret(raw, raw.user_data_x[index].player_game_data.dexterity)
            ELSE Panic(raw))

\* SaveApi::intelligence of save_api.rs.
SaveApi_intelligence(index) ==
    /\ Callable
    /\ Call("intelligence", index, NoArg,
            IF IndexInBounds(index)
            THEN Ret(raw, raw.user_data_x[index].player_game_data.intelligence)
            ELSE Panic(raw))

\* SaveApi::faith of save_api.rs.
SaveApi_faith(index) ==
    /\ Callable
    /\ Call("faith", index, NoArg,
            IF IndexInBounds(index)
            THEN Ret(raw, raw.user_data_x[index].player_game_data.faith)
            ELSE Panic(raw))

\* SaveApi::arcane of save_api.rs.
SaveApi_arcane(index) ==
    /\ Callable
    /\ Call("arcane", index, NoArg,
            IF IndexInBounds(index)
            THEN Ret(raw, raw.user_data_x[index].player_game_data.arcane)
            ELSE Panic(raw))

\* SaveApi::runes of save_api.rs.
SaveApi_runes(index) ==
    /\ Callable
    /\ Call("runes", index, NoArg,
            IF IndexInBounds(index)
            THEN Ret(raw, raw.user_data_x[index].player_game_data.runes)
            ELSE Panic(raw))

\* SaveApi::runes_memory of save_api.rs.
SaveApi_runes_memory(index) ==
    /\ Callable
    /\ Call("runes_memory", index, NoArg,
            IF IndexInBounds(index)
            THEN Ret(raw, raw.user_data_x[index].player_game_data.runes_memory)
            ELSE Panic(raw))

\* SaveApi::archetype of save_api.rs.
SaveApi_archetype(index) ==
    /\ Callable
    /\ Call("archetype", index, NoArg,
            IF IndexInBounds(index)
            THEN Ret(raw, raw.user_data_x[index].player_game_data.archetype)
            ELSE Panic(raw))

\* SaveApi::gender of save_api.rs.
SaveApi_gender(index) ==
    /\ Callable
    /\ Call("gender", index, NoArg,
            IF IndexInBounds(index)
            THEN Ret(raw, raw.user_data_x[index].player_game_data.gender)
            ELSE Panic(raw))

\* SaveApi::to_vec of save_api.rs.
SaveApi_to_vec ==
    /\ Callable
    /\ Call("to_vec", NoIndex, NoArg, Ret(raw, Serialize(raw)))

\* SaveApi::get_param of save_api.rs.
SaveApi_get_param(P) ==
    /\ Callable
    /\ Call("get_param", NoIndex, P,
            LET res == Regulation_get_param(raw.user_data_11.regulation, P)
            IN  IF res.ok THEN Ret(raw, [rows |-> res.rows])
                ELSE Err(raw, res.error))

\* SaveApi::get_param_bytes_map of save_api.rs.
SaveApi_get_param_bytes_map ==
    /\ Callable
    /\ Call("get_param_bytes_map", NoIndex, NoArg,
            Ret(raw, raw.user_data_11.regulation.content.data.file_data.param_files))

\* A container parsed from a file, with a regulation of one or two tables, on
\* which every twinned operation can be called.
InitTwins ==
    \E with_menu \in BOOLEAN :
        Constructed(
            Parse(FileOf([LoadedSave(ConsoleHeaderLen, FALSE) EXCEPT
                             !.user_data_11.regulation =
                                 LoadedRegulation(<<1, 2, 3, 4>>, <<0, 0, 0, 0>>,
                                                  with_menu, RowStride)],
                         1)).save,
            1)

NextTwins ==
    \/ platform
    \/ SaveApi_platform
    \/ steam_id
    \/ SaveApi_steam_id
    \/ \E value \in SteamIds : set_steam_id(value)
    \/ \E value \in SteamIds : SaveApi_set_steam_id(value)
    \/ \E name \in Names : character_index_from_name(name)
    \/ \E name \in Names : SaveApi_character_index_from_name(name)
    \/ active_characters
    \/ SaveApi_active_characters
    \/ \E index \in Indexes, value \in Values : set_archetype(index, value)
    \/ \E index \in Indexes, value \in Values : SaveApi_set_archetype(index, value)
    \/ \E index \in Indexes, value \in Values : set_level(index, value)
    \/ \E index \in Indexes, value \in Values : SaveApi_set_level(index, value)
    \/ \E index \in Indexes, value \in Values : set_runes_memory(index, value)
    \/ \E index \in Indexes, value \in Values : SaveApi_set_runes_memory(index, value)
    \/ \E index \in Indexes, new_name \in Names : set_character_name(index, new_name)
    \/ \E index \in Indexes, new_name \in Names : SaveApi_set_character_name(index, new_name)
    \/ \E index \in Indexes, value \in Values : set_gender(index, value)
    \/ \E index \in Indexes, value \in Values : SaveApi_set_gender(index, value)
    \/ \E index \in Indexes : character_name(index)
    \/ \E index \in Indexes : SaveApi_character_name(index)
    \/ \E index \in Indexes : regions(index)
    \/ \E index \in Indexes : SaveApi_regions(index)
    \/ \E index \in Indexes : regions_count(index)
    \/ \E index \in Indexes : SaveApi_regions_count(index)
    \/ \E index \in Indexes, region_id \in RegionIds : add_region(index, region_id)
    \/ \E index \in Indexes, region_id \in RegionIds : SaveApi_add_region(index, region_id)
    \/ \E index \in Indexes, region_id \in RegionIds : remove_region(index, region_id)
    \/ \E index \in Indexes, region_id \in RegionIds : SaveApi_remove_region(index, region_id)
    \/ \E index \in Indexes, value \in Values : set_hp(index, value)
    \/ \E index \in Indexes, value \in Values : SaveApi_set_hp(index, value)
    \/ \E index \in Indexes, value \in Values : set_max_hp(index, value)
    \/ \E index \in Indexes, value \in Values : SaveApi_set_max_hp(index, value)
    \/ \E index \in Indexes, value \in Values : set_base_max_hp(index, value)
    \/ \E index \in Indexes, value \in Values : SaveApi_set_base_max_hp(index, value)
    \/ \E index \in Indexes, value \in Values : set_fp(index, value)
    \/ \E index \in Indexes, value \in Values : SaveApi_set_fp(index, value)
    \/ \E index \in Indexes, value \in Values : set_max_fp(index, value)
    \/ \E index \in Indexes, value \in Values : SaveApi_set_max_fp(index, value)
    \/ \E index \in Indexes, value \in Values : set_base_max_fp(index, value)
    \/ \E index \in Indexes, value \in Values : SaveApi_set_base_max_fp(index, value)
    \/ \E index \in Indexes, value \in Values : set_sp(index, value)
    \/ \E index \in Indexes, value \in Values : SaveApi_set_sp(index, value)
    \/ \E index \in Indexes, value \in Values : set_max_sp(index, value)
    \/ \E index \in Indexes, value \in Values : SaveApi_set_max_sp(index, value)
    \/ \E index \in Indexes, value \in Values : set_base_max_sp(index, value)
    \/ \E index \in Indexes, value \in Values : SaveApi_set_base_max_sp(index, value)
    \/ \E index \in Indexes, value \in Values : set_vigor(index, value)
    \/ \E index \in Indexes, value \in Values : SaveApi_set_vigor(index, value)
    \/ \E index \in Indexes, value \in Values : set_mind(index, value)
    \/ \E index \in Indexes, value \in Values : SaveApi_set_mind(index, value)
    \/ \E index \in Indexes, value \in Values : set_endurance(index, value)
    \/ \E index \in Indexes, value \in Values : SaveApi_set_endurance(index, value)
    \/ \E index \in Indexes, value \in Values : set_strength(index, value)
    \/ \E index \in Indexes, value \in Values : SaveApi_set_strength(index, value)
    \/ \E index \in Indexes, value \in Values : set_dexterity(index, value)
    \/ \E index \in Indexes, value \in Values : SaveApi_set_dexterity(index, value)
    \/ \E index \in Indexes, value \in Values : set_intelligence(index, value)
    \/ \E index \in Indexes, value \in Values : SaveApi_set_intelligence(index, value)
    \/ \E index \in Indexes, value \in Values : set_faith(index, value)
    \/ \E index \in Indexes, value \in Values : SaveApi_set_faith(index, value)
    \/ \E index \in Indexes, value \in Values : set_arcane(index, value)
    \/ \E index \in Indexes, value \in Values : SaveApi_set_arcane(index, value)
    \/ \E index \in Indexes, value \in Values : set_runes(index, value)
    \/ \E index \in Indexes, value \in Values : SaveApi_set_runes(index, value)
    \/ \E index \in Indexes : hp(index)
    \/ \E index \in Indexes : SaveApi_hp(index)
    \/ \E index \in Indexes : max_hp(index)
    \/ \E index \in Indexes : SaveApi_max_hp(index)
    \/ \E index \in Indexes : base_max_hp(index)
    \/ \E index \in Indexes : SaveApi_base_max_hp(index)
    \/ \E index \in Indexes : max_fp(index)
    \/ \E index \in Indexes : SaveApi_max_fp(index)
    \/ \E index \in Indexes : base_max_fp(index)
    \/ \E index \in Indexes : SaveApi_base_max_fp(index)
    \/ \E index \in Indexes : max_sp(index)
    \/ \E index \in Indexes : SaveApi_max_sp(index)
    \/ \E index \in Indexes : base_max_sp(index)
    \/ \E index \in Indexes : SaveApi_base_max_sp(index)
    \/ \E index \in Indexes : level(index)
    \/ \E index \in Indexes : SaveApi_level(index)
    \/ \E index \in Indexes : vigor(index)
    \/ \E index \in Indexes : SaveApi_vigor(index)
    \/ \E index \in Indexes : mind(index)
    \/ \E index \in Indexes : SaveApi_mind(index)
    \/ \E index \in Indexes : endurance(index)
    \/ \E index \in Indexes : SaveApi_endurance(index)
    \/ \E index \in Indexes : strength(index)
    \/ \E index \in Indexes : SaveApi_strength(index)
    \/ \E index \in Indexes : dexterity(index)
    \/ \E index \in Indexes : SaveApi_dexterity(index)
    \/ \E index \in Indexes : intelligence(index)
    \/ \E index \in Indexes : SaveApi_intelligence(index)
    \/ \E index \in Indexes : faith(index)
    \/ \E index \in Indexes : SaveApi_faith(index)
    \/ \E index \in Indexes : arcane(index)
    \/ \E index \in Indexes : SaveApi_arcane(index)
    \/ \E index \in Indexes : runes(index)
    \/ \E index \in Indexes : SaveApi_runes(index)
    \/ \E index \in Indexes : runes_memory(index)
    \/ \E index \in Indexes : SaveApi_runes_memory(index)
    \/ \E index \in Indexes : archetype(index)
    \/ \E index \in Indexes : SaveApi_archetype(index)
    \/ \E index \in Indexes : gender(index)
    \/ \E index \in Indexes : SaveApi_gender(index)
    \/ to_vec
    \/ SaveApi_to_vec
    \/ \E P \in ParamTypes : get_param(P)
    \/ \E P \in ParamTypes : SaveApi_get_param(P)
    \/ get_param_bytes_map
    \/ SaveApi_get_param_bytes_map

SpecTwins == InitTwins /\ [][NextTwins]_vars

\* A step that is a call of a twinned operation is a step of its save_api.rs
\* definition exactly when it is a step of its split-module definition.
TwinsAgree ==
    /\ last'.op = "platform" =>
          (SaveApi_platform <=> platform)
    /\ last'.op = "steam_id" =>
          (SaveApi_steam_id <=> steam_id)
    /\ last'.op = "set_steam_id" =>
          (SaveApi_set_steam_id(last'.arg) <=> set_steam_id(last'.arg))
    /\ last'.op = "character_index_from_name" =>
          (SaveApi_character_index_from_name(last'.arg) <=> character_index_from_name(last'.arg))
    /\ last'.op = "active_characters" =>
          (SaveApi_active_characters <=> active_characters)
    /\ last'.op = "set_archetype" =>
          (SaveApi_set_archetype(last'.index, last'.arg) <=> set_archetype(last'.index, last'.arg))
    /\ last'.op = "set_level" =>
          (SaveApi_set_level(last'.index, last'.arg) <=> set_level(last'.index, last'.arg))
    /\ last'.op = "set_runes_memory" =>
          (SaveApi_set_runes_memory(last'.index, last'.arg) <=> set_runes_memory(last'.index, last'.arg))
    /\ last'.op = "set_character_name" =>
          (SaveApi_set_character_name(last'.index, last'.arg) <=> set_character_name(last'.index, last'.arg))
    /\ last'.op = "set_gender" =>
          (SaveApi_set_gender(last'.index, last'.arg) <=> set_gender(last'.index, last'.arg))
    /\ last'.op = "character_name" =>
          (SaveApi_character_name(last'.index) <=> character_name(last'.index))
    /\ last'.op = "regions" =>
          (SaveApi_regions(last'.index) <=> regions(last'.index))
    /\ last'.op = "regions_count" =>
          (SaveApi_regions_count(last'.index) <=> regions_count(last'.index))
    /\ last'.op = "add_region" =>
          (SaveApi_add_region(last'.index, last'.arg) <=> add_region(last'.index, last'.arg))
    /\ last'.op = "remove_region" =>
          (SaveApi_remove_region(last'.index, last'.arg) <=> remove_region(last'.index, last'.arg))
    /\ last'.op = "set_hp" =>
          (SaveApi_set_hp(last'.index, last'.arg) <=> set_hp(last'.index, last'.arg))
    /\ last'.op = "set_max_hp" =>
          (SaveApi_set_max_hp(last'.index, last'.arg) <=> set_max_hp(last'.index, last'.arg))
    /\ last'.op = "set_base_max_hp" =>
          (SaveApi_set_base_max_hp(last'.index, last'.arg) <=> set_base_max_hp(last'.index, last'.arg))
    /\ last'.op = "set_fp" =>
          (SaveApi_set_fp(last'.index, last'.arg) <=> set_fp(last'.index, last'.arg))
    /\ last'.op = "set_max_fp" =>
          (SaveApi_set_max_fp(last'.index, last'.arg) <=> set_max_fp(last'.index, last'.arg))
    /\ last'.op = "set_base_max_fp" =>
          (SaveApi_set_base_max_fp(last'.index, last'.arg) <=> set_base_max_fp(last'.index, last'.arg))
    /\ last'.op = "set_sp" =>
          (SaveApi_set_sp(last'.index, last'.arg) <=> set_sp(last'.index, last'.arg))
    /\ last'.op = "set_max_sp" =>
          (SaveApi_set_max_sp(last'.index, last'.arg) <=> set_max_sp(last'.index, last'.arg))
    /\ last'.op = "set_base_max_sp" =>
          (SaveApi_set_base_max_sp(last'.index, last'.arg) <=> set_base_max_sp(last'.index, last'.arg))
    /\ last'.op = "set_vigor" =>
          (SaveApi_set_vigor(last'.index, last'.arg) <=> set_vigor(last'.index, last'.arg))
    /\ last'.op = "set_mind" =>
          (SaveApi_set_mind(last'.index, last'.arg) <=> set_mind(last'.index, last'.arg))
    /\ last'.op = "set_endurance" =>
          (SaveApi_set_endurance(last'.index, last'.arg) <=> set_endurance(last'.index, last'.arg))
    /\ last'.op = "set_strength" =>
          (SaveApi_set_strength(last'.index, last'.arg) <=> set_strength(last'.index, last'.arg))
    /\ last'.op = "set_dexterity" =>
          (SaveApi_set_dexterity(last'.index, last'.arg) <=> set_dexterity(last'.index, last'.arg))
    /\ last'.op = "set_intelligence" =>
          (SaveApi_set_intelligence(last'.index, last'.arg) <=> set_intelligence(last'.index, last'.arg))
    /\ last'.op = "set_faith" =>
          (SaveApi_set_faith(last'.index, last'.arg) <=> set_faith(last'.index, last'.arg))
    /\ last'.op = "set_arcane" =>
          (SaveApi_set_arcane(last'.index, last'.arg) <=> set_arcane(last'.index, last'.arg))
    /\ last'.op = "set_runes" =>
          (SaveApi_set_runes(last'.index, last'.arg) <=> set_runes(last'.index, last'.arg))
    /\ last'.op = "hp" =>
          (SaveApi_hp(last'.index) <=> hp(last'.index))
    /\ last'.op = "max_hp" =>
          (SaveApi_max_hp(last'.index) <=> max_hp(last'.index))
    /\ last'.op = "base_max_hp" =>
          (SaveApi_base_max_hp(last'.index) <=> base_max_hp(last'.index))
    /\ last'.op = "max_fp" =>
          (SaveApi_max_fp(last'.index) <=> max_fp(last'.index))
    /\ last'.op = "base_max_fp" =>
          (SaveApi_base_max_fp(last'.index) <=> base_max_fp(last'.index))
    /\ last'.op = "max_sp" =>
          (SaveApi_max_sp(last'.index) <=> max_sp(last'.index))
    /\ last'.op = "base_max_sp" =>
          (SaveApi_base_max_sp(last'.index) <=> base_max_sp(last'.index))
    /\ last'.op = "level" =>
          (SaveApi_level(last'.index) <=> level(last'.index))
    /\ last'.op = "vigor" =>
          (SaveApi_vigor(last'.index) <=> vigor(last'.index))
    /\ last'.op = "mind" =>
          (SaveApi_mind(last'.index) <=> mind(last'.index))
    /\ last'.op = "endurance" =>
          (SaveApi_endurance(last'.index) <=> endurance(last'.index))
    /\ last'.op = "strength" =>
          (SaveApi_strength(last'.index) <=> strength(last'.index))
    /\ last'.op = "dexterity" =>
          (SaveApi_dexterity(last'.index) <=> dexterity(last'.index))
    /\ last'.op = "intelligence" =>
          (SaveApi_intelligence(last'.index) <=> intelligence(last'.index))
    /\ last'.op = "faith" =>
          (SaveApi_faith(last'.index) <=> faith(last'.index))
    /\ last'.op = "arcane" =>
          (SaveApi_arcane(last'.index) <=> arcane(last'.index))
    /\ last'.op = "runes" =>
          (SaveApi_runes(last'.index) <=> runes(last'.index))
    /\ last'.op = "runes_memory" =>
          (SaveApi_runes_memory(last'.index) <=> runes_memory(last'.index))
    /\ last'.op = "archetype" =>
          (SaveApi_archetype(last'.index) <=> archetype(last'.index))
    /\ last'.op = "gender" =>
          (SaveApi_gender(last'.index) <=> gender(last'.index))
    /\ last'.op = "to_vec" =>
          (SaveApi_to_vec <=> to_vec)
    /\ last'.op = "get_param" =>
          (SaveApi_get_param(last'.arg) <=> get_param(last'.arg))
    /\ last'.op = "get_param_bytes_map" =>
          (SaveApi_get_param_bytes_map <=> get_param_bytes_map)

\* C30: every facade operation defined both in save_api.rs and in a split
\* module has, from every reachable container and for every input, the same
\* possible outcomes (container afterwards, result, panic) under both
\* definitions; add_region and remove_region of save_api.rs are taken write by
\* write.
C30_TwinDefinitionsAgree == [][TwinsAgree]_vars

\* C30 witness: region 1000 of slot 1 was removed and then added again, each
\* call changing ids, count and rest.
C30_Witness ==
    /\ ncalls = 2
    /\ last.op = "add_region" /\ last.index = 1 /\ last.arg = 1000
    /\ last.outcome = "Ok"
    /\ Ids(loaded, 1) = <<1000>>
    /\ Ids(before, 1) = << >>
    /\ Ids(raw, 1) = <<1000>>
    /\ Len(Rest(before, 1)) = Len(Rest(loaded, 1)) + RegionIdBytes
    /\ Rest(raw, 1) = Rest(loaded, 1)

====
